---- MODULE Spec2Model ----
(***************************************************************************)
(* Provider credential orchestration of the gateway: the OAuth state       *)
(* store (oauth-state-store), the GET /auth/callback responder and the     *)
(* models.auth.* RPC handlers.                                             *)
(*                                                                         *)
(* Strings are sequences of one-character strings, so that trim,           *)
(* toLowerCase and the trailing-slash strip are computed, not assumed.     *)
(* An absent optional value (undefined / null) is the value Undefined,     *)
(* which is no string of the alphabet.                                     *)
(***************************************************************************)
EXTENDS Integers, Sequences, FiniteSets, TLC

(***************************************************************************)
(* Bounds of the model.                                                    *)
(***************************************************************************)
\* The clock runs over 0 .. MaxTicks ticks of one TTL each.
MaxTicks == 2
\* Number of state tokens the random source hands out in one behaviour.
MaxTokens == 2

(***************************************************************************)
(* Strings.                                                                *)
(***************************************************************************)
Undefined == <<"undefined">>

IsDefined(v) == v # Undefined

IsWhitespace(c) == c = " "

RECURSIVE TrimStart(_)
TrimStart(s) ==
  IF s = <<>> THEN s
  ELSE IF IsWhitespace(Head(s)) THEN TrimStart(Tail(s)) ELSE s

RECURSIVE TrimEnd(_)
TrimEnd(s) ==
  IF s = <<>> THEN s
  ELSE IF IsWhitespace(s[Len(s)]) THEN TrimEnd(SubSeq(s, 1, Len(s) - 1)) ELSE s

\* String.prototype.trim
Trim(s) == TrimEnd(TrimStart(s))

\* value?.trim(): undefined stays undefined
OptTrim(v) == IF IsDefined(v) THEN Trim(v) ELSE Undefined

\* JavaScript truthiness of an optional string: undefined and "" are falsy
Truthy(v) == IsDefined(v) /\ v # <<>>

LowerChar(c) ==
  CASE c = "A" -> "a"
    [] c = "B" -> "b"
    [] c = "C" -> "c"
    [] c = "O" -> "o"
    [] c = "X" -> "x"
    [] c = "Y" -> "y"
    [] OTHER -> c

\* String.prototype.toLowerCase
ToLowerCase(s) == [i \in 1..Len(s) |-> LowerChar(s[i])]

\* base.replace(/\/+$/, "")
RECURSIVE StripTrailingSlashes(_)
StripTrailingSlashes(s) ==
  IF s = <<>> THEN s
  ELSE IF s[Len(s)] = "/" THEN StripTrailingSlashes(SubSeq(s, 1, Len(s) - 1))
  ELSE s

(***************************************************************************)
(* The clock.  Date.now() is read in milliseconds; the model advances it   *)
(* in ticks of one TTL, so that an entry's age takes the values 0, TTL     *)
(* (the boundary: not yet expired) and 2*TTL (expired).                    *)
(***************************************************************************)
OAUTH_STATE_TTL_MS == 10 * 60 * 1000

TickMs == OAUTH_STATE_TTL_MS

VARIABLES
  now,          \* the clock, in ticks
  stateMap,     \* oauth-state-store: token -> OAuthStateEntry
  nIssued,      \* how many tokens randomBytes has produced so far
  issuedEntry,  \* history: token -> the entry stored when the token was created
  consumeCount, \* history: state string -> number of consumeOAuthState calls (capped at 2)
  firstFound,   \* history: the tokens whose first consumeOAuthState call returned an entry
  lastStore,    \* history: the last direct call of the state store
  providers,    \* the live provider list resolvePluginProviders returns
  configFile,   \* the persisted configuration document
  authProfiles, \* the credential-profile store: profileId -> credential and agentDir
  slot,         \* the handler invocations in flight, each at a suspension point
  lastDone,     \* history: the handler invocation that returned last
  obtained,     \* history: token -> callbacks that got its entry from the store (capped at 2)
  exchangeCalls, \* history: token -> oauthCallback invocations carrying it (capped at 2)
  call,         \* a direct call of one of the helper functions: arguments and result
  started,      \* history: token -> what method.oauthStart was called with
  writes,       \* history: the document each handler last wrote with success
  chat,         \* the Control UI's ChatState object
  sends,        \* the sendChatMessage invocations waiting on chat.send
  chatRet       \* history: the chat controller call that returned last

storeHist == <<issuedEntry, consumeCount, firstFound, lastStore>>

handlerVars == <<providers, configFile, authProfiles, slot, lastDone, obtained, exchangeCalls>>

\* the Control UI's chat controller
uiVars == <<chat, sends, chatRet>>

vars == <<now, stateMap, nIssued, storeHist, handlerVars, call, started, writes, uiVars>>

DateNow == now * TickMs

(***************************************************************************)
(* State Store (oauth-state-store).                                        *)
(***************************************************************************)
\* consumeOAuthState's null
Null == [null |-> TRUE]

\* randomBytes(32).toString("hex"): the n-th token drawn.  A 256-bit random
\* token is modelled as a value never drawn before.
TokenChars == <<"1", "2", "3", "4", "5", "6", "7", "8">>

Token(n) == <<TokenChars[n]>>

Tokens == { Token(n) : n \in 1..MaxTokens }

\* now - entry.createdAt > OAUTH_STATE_TTL_MS, in pruneExpired
PruneIsExpired(entry, t) == t - entry.createdAt > OAUTH_STATE_TTL_MS

pruneExpired_None(map, t) == map

pruneExpired(map, t) ==
  [s \in { k \in DOMAIN map : ~PruneIsExpired(map[k], t) } |-> map[s]]

WithCreatedAt(entry, t) ==
  [providerId |-> entry.providerId,
   methodId |-> entry.methodId,
   agentDir |-> entry.agentDir,
   workspaceDir |-> entry.workspaceDir,
   successRedirectBase |-> entry.successRedirectBase,
   createdAt |-> t]

\* createOAuthState: the map after the call, `state` being the token drawn
createOAuthState(map, entry, state, t) ==
  LET pruned == pruneExpired(map, t)
  IN  [s \in DOMAIN pruned \cup {state} |->
         IF s = state THEN WithCreatedAt(entry, t) ELSE pruned[s]]

\* Date.now() - entry.createdAt > OAUTH_STATE_TTL_MS, in consumeOAuthState
ConsumeIsExpired_AtBoundary(entry, t) == t - entry.createdAt >= OAUTH_STATE_TTL_MS

ConsumeIsExpired(entry, t) == t - entry.createdAt > OAUTH_STATE_TTL_MS

consumeResult_IgnoreTtl(map, state, t) ==
  IF state \notin DOMAIN map THEN Null ELSE map[state]

\* consumeOAuthState: what the call returns
consumeResult(map, state, t) ==
  IF state \notin DOMAIN map THEN Null
  ELSE IF ConsumeIsExpired(map[state], t) THEN Null
  ELSE map[state]

\* consumeOAuthState: the map after the call (stateMap.delete(state))
consumeDelete_Keep(map, state) == map

consumeDelete_Clear(map, state) == << >>

consumeDelete(map, state) == [s \in DOMAIN map \ {state} |-> map[s]]

(***************************************************************************)
(* Provider descriptors (ProviderPlugin, ProviderAuthMethod) and the       *)
(* Provider Matcher.                                                       *)
(***************************************************************************)
\* Array.prototype.find: the first of the indices whose element passes the
\* test, or 0 when there is none
FirstIndex(hits) ==
  IF hits = {} THEN 0
  ELSE CHOOSE i \in hits : \A j \in hits : i <= j

\* normalizeProviderId (agents/model-selection): trim and case-fold
normalizeProviderId(provider) == ToLowerCase(Trim(provider))

\* resolveProviderMatch of the RPC handlers
resolveProviderMatch_FallbackFirst(list, rawProvider) ==
  LET normalized == normalizeProviderId(Trim(rawProvider))
      byId == FirstIndex({ i \in 1..Len(list) : normalizeProviderId(list[i].id) = normalized })
      byAlias == FirstIndex({ i \in 1..Len(list) :
                   \E k \in 1..Len(list[i].aliases) :
                     normalizeProviderId(list[i].aliases[k]) = normalized })
  IN  IF byId # 0 THEN list[byId]
      ELSE IF byAlias # 0 THEN list[byAlias]
      ELSE list[1]

resolveProviderMatch(list, rawProvider) ==
  LET normalized == normalizeProviderId(Trim(rawProvider))
      byId == FirstIndex({ i \in 1..Len(list) : normalizeProviderId(list[i].id) = normalized })
      byAlias == FirstIndex({ i \in 1..Len(list) :
                   \E k \in 1..Len(list[i].aliases) :
                     normalizeProviderId(list[i].aliases[k]) = normalized })
  IN  IF byId # 0 THEN list[byId]
      ELSE IF byAlias # 0 THEN list[byAlias]
      ELSE Null

\* one pass over the list, a descriptor matching by id or by alias
resolveProviderMatchCb_SinglePass(list, providerId) ==
  LET normalized == normalizeProviderId(providerId)
      first == FirstIndex({ i \in 1..Len(list) :
                 \/ normalizeProviderId(list[i].id) = normalized
                 \/ \E k \in 1..Len(list[i].aliases) :
                      normalizeProviderId(list[i].aliases[k]) = normalized })
  IN  IF first # 0 THEN list[first] ELSE Null

\* resolveProviderMatch of the callback handler
resolveProviderMatchCb(list, providerId) ==
  LET normalized == normalizeProviderId(providerId)
      byId == FirstIndex({ i \in 1..Len(list) : normalizeProviderId(list[i].id) = normalized })
      byAlias == FirstIndex({ i \in 1..Len(list) :
                   \E k \in 1..Len(list[i].aliases) :
                     normalizeProviderId(list[i].aliases[k]) = normalized })
  IN  IF byId # 0 THEN list[byId]
      ELSE IF byAlias # 0 THEN list[byAlias]
      ELSE Null

IsOAuthKind(m) == m.kind = "oauth"

pickOAuthMethod_AnyKind(provider, rawMethod) ==
  IF Len(provider.auth) = 0 THEN Null ELSE provider.auth[1]

pickOAuthMethod(provider, rawMethod) ==
  LET oauthMethods == SelectSeq(provider.auth, IsOAuthKind)
      raw == OptTrim(rawMethod)
      normalized == ToLowerCase(raw)
      byId == FirstIndex({ i \in 1..Len(oauthMethods) :
                ToLowerCase(oauthMethods[i].id) = normalized })
      byLabel == FirstIndex({ i \in 1..Len(oauthMethods) :
                   ToLowerCase(oauthMethods[i].label) = normalized })
  IN  IF Len(oauthMethods) = 0 THEN Null
      ELSE IF ~Truthy(raw) THEN oauthMethods[1]
      ELSE IF byId # 0 THEN oauthMethods[byId]
      ELSE IF byLabel # 0 THEN oauthMethods[byLabel]
      ELSE Null

\* the first oauth method, whatever the methodId
findOAuthMethod_FirstOAuth(provider, methodId) ==
  LET first == FirstIndex({ i \in 1..Len(provider.auth) : provider.auth[i].kind = "oauth" })
  IN  IF first # 0 THEN provider.auth[first] ELSE Null

findOAuthMethod(provider, methodId) ==
  LET first == FirstIndex({ i \in 1..Len(provider.auth) :
                 /\ provider.auth[i].kind = "oauth"
                 /\ \/ provider.auth[i].id = methodId
                    \/ ToLowerCase(provider.auth[i].label) = ToLowerCase(methodId) })
  IN  IF first # 0 THEN provider.auth[first] ELSE Null

\* JSON values, tagged by kind: a plain record, a string, an array
Rec(f) == [k |-> "rec", f |-> f]

Str(s) == [k |-> "str", f |-> s]

Arr(s) == [k |-> "arr", f |-> s]

\* null
JsonNull == [k |-> "null", f |-> << >>]

\* no value (an absent configPatch, a migration that did nothing, a
\* descriptor without models)
NoValue == [k |-> "undefined", f |-> << >>]

\* a provider block: where the provider is reached and what it serves
ProviderBlock(baseUrl) ==
  Rec(("baseUrl" :> Str(baseUrl)) @@ ("models" :> Arr(<<Str(<<"m">>)>>)))

\* The provider descriptors the plugin collaborator supplies.
MethodX ==
  [id |-> <<"x">>, label |-> <<"X", " ", "B">>, kind |-> "oauth",
   oauthStart |-> TRUE, oauthCallback |-> TRUE]

\* an oauth method that can start a flow but has no callback capability
MethodY ==
  [id |-> <<"y">>, label |-> <<"C">>, kind |-> "oauth",
   oauthStart |-> TRUE, oauthCallback |-> FALSE]

MethodKey ==
  [id |-> <<"k">>, label |-> <<"K">>, kind |-> "api_key",
   oauthStart |-> FALSE, oauthCallback |-> FALSE]

MethodNoStart ==
  [id |-> <<"x">>, label |-> <<"X">>, kind |-> "oauth",
   oauthStart |-> FALSE, oauthCallback |-> FALSE]

MethodTok ==
  [id |-> <<"t">>, label |-> <<"T">>, kind |-> "token",
   oauthStart |-> FALSE, oauthCallback |-> FALSE]

ProviderA ==
  [id |-> <<"a">>, label |-> <<"A">>, aliases |-> << <<"O">> >>,
   auth |-> <<MethodKey, MethodX, MethodY>>,
   models |-> ProviderBlock(<<"https", "://", "a">>)]

ProviderB ==
  [id |-> <<"b">>, label |-> <<"B">>, aliases |-> << >>,
   auth |-> <<MethodKey, MethodTok>>,
   models |-> NoValue]

ProviderC ==
  [id |-> <<"c">>, label |-> <<"C">>, aliases |-> << >>,
   auth |-> <<MethodNoStart>>,
   models |-> NoValue]

\* resolvePluginProviders: the live list
Catalog == <<ProviderA, ProviderB, ProviderC>>

\* resolveAgentDir / resolveAgentWorkspaceDir of the default agent
AgentDir == <<"d">>

WorkspaceDir == <<"w">>

(***************************************************************************)
(* Configuration documents: JSON values, tagged by kind.                   *)
(***************************************************************************)
EmptyDoc == Rec(<< >>)

isPlainRecord(value) == value.k = "rec"

mergeConfigPatch_PatchOnly(base, patch) == patch

\* a merge of the top level only
mergeConfigPatch_Shallow(base, patch) ==
  IF ~isPlainRecord(base) \/ ~isPlainRecord(patch) THEN patch
  ELSE Rec([key \in DOMAIN base.f \cup DOMAIN patch.f |->
              IF key \in DOMAIN patch.f THEN patch.f[key] ELSE base.f[key]])

RECURSIVE mergeConfigPatch(_, _)
mergeConfigPatch(base, patch) ==
  IF ~isPlainRecord(base) \/ ~isPlainRecord(patch) THEN patch
  ELSE Rec([key \in DOMAIN base.f \cup DOMAIN patch.f |->
              IF key \notin DOMAIN patch.f THEN base.f[key]
              ELSE IF key \in DOMAIN base.f
                      /\ isPlainRecord(base.f[key]) /\ isPlainRecord(patch.f[key])
                   THEN mergeConfigPatch(base.f[key], patch.f[key])
                   ELSE patch.f[key]])

credentialMode_AlwaysOAuth(cred) == "oauth"

credentialMode(cred) ==
  IF cred.type = "api_key" THEN "api_key"
  ELSE IF cred.type = "token" THEN "token"
  ELSE "oauth"

\* applyAuthProfileConfig (commands/onboard-auth): records the profile's
\* provider and authentication mode under auth.profiles[profileId]
applyAuthProfileConfig(cfg, params) ==
  mergeConfigPatch(cfg,
    Rec("auth" :> Rec("profiles" :> Rec(params.profileId :>
      Rec(("provider" :> Str(params.provider)) @@ ("mode" :> Str(<<params.mode>>)))))))

\* applyLegacyMigrations (config/legacy): a document with the legacy key is
\* rewritten; next is NoValue when nothing was migrated
applyLegacyMigrations(cfg) ==
  IF isPlainRecord(cfg) /\ "legacy" \in DOMAIN cfg.f
  THEN [next |-> Rec([key \in (DOMAIN cfg.f \ {"legacy"}) \cup {"migrated"} |->
                        IF key = "migrated" THEN cfg.f["legacy"] ELSE cfg.f[key]])]
  ELSE [next |-> NoValue]

\* the schema + plugin validator: a document with the key "bogus" is rejected
ValidDoc(doc) == isPlainRecord(doc) /\ "bogus" \notin DOMAIN doc.f

validateConfigObjectWithPlugins(doc) == [ok |-> ValidDoc(doc), config |-> doc]

readConfigFileSnapshot_AlwaysValid(file) == [valid |-> TRUE, config |-> file]

\* readConfigFileSnapshot over the file's current content
readConfigFileSnapshot(file) == [valid |-> ValidDoc(file), config |-> file]

\* lines 162-178 of the callback: the document handed to writeConfigFile,
\* or NoValue when validation fails
RECURSIVE applyProfiles(_, _, _)
applyProfiles(cfg, profiles, i) ==
  IF i > Len(profiles) THEN cfg
  ELSE applyProfiles(
         applyAuthProfileConfig(cfg,
           [profileId |-> profiles[i].profileId,
            provider |-> profiles[i].credential.provider,
            mode |-> credentialMode(profiles[i].credential)]),
         profiles, i + 1)

\* the migration ahead of the patch and the profile references
ConfigToWrite_MigrateFirst(snapshotConfig, result) ==
  LET migrated == applyLegacyMigrations(snapshotConfig)
      resolved == IF migrated.next # NoValue THEN migrated.next ELSE snapshotConfig
      patched == IF result.configPatch # NoValue
                 THEN mergeConfigPatch(resolved, result.configPatch)
                 ELSE resolved
      next == applyProfiles(patched, result.profiles, 1)
      validated == validateConfigObjectWithPlugins(next)
  IN  IF validated.ok THEN validated.config ELSE NoValue

ConfigToWrite(snapshotConfig, result) ==
  LET patched == IF result.configPatch # NoValue
                 THEN mergeConfigPatch(snapshotConfig, result.configPatch)
                 ELSE snapshotConfig
      next == applyProfiles(patched, result.profiles, 1)
      migrated == applyLegacyMigrations(next)
      resolved == IF migrated.next # NoValue THEN migrated.next ELSE next
      validated == validateConfigObjectWithPlugins(resolved)
  IN  IF validated.ok THEN validated.config ELSE NoValue

(***************************************************************************)
(* HTTP response of the callback and its redirects.                        *)
(***************************************************************************)
EncodeChar(c) ==
  CASE c = " " -> "%20"
    [] c = "/" -> "%2F"
    [] c = ":" -> "%3A"
    [] OTHER -> c

encodeURIComponent(s) == [i \in 1..Len(s) |-> EncodeChar(s[i])]

FreshResponse == [statusCode |-> 200, location |-> Undefined, ended |-> 0]

redirectToSuccess(res, base) ==
  [statusCode |-> 302,
   location |-> IF Truthy(base)
                THEN StripTrailingSlashes(base) \o <<"?oauth=success">>
                ELSE <<"/", "?oauth=success">>,
   ended |-> res.ended + 1]

redirectToError_AsSuccess(res, message, base) ==
  [statusCode |-> 302,
   location |-> IF Truthy(base)
                THEN StripTrailingSlashes(base) \o <<"?oauth=success">>
                ELSE <<"/", "?oauth=success">>,
   ended |-> res.ended + 1]

redirectToError_DefaultBase(res, message, base) ==
  [statusCode |-> 302,
   location |-> <<"/", "?oauth=error&message=">> \o encodeURIComponent(message),
   ended |-> res.ended + 1]

redirectToError_NoEnd(res, message, base) ==
  [statusCode |-> 302,
   location |-> IF Truthy(base)
                THEN StripTrailingSlashes(base) \o <<"?oauth=error&message=">>
                       \o encodeURIComponent(message)
                ELSE <<"/", "?oauth=error&message=">> \o encodeURIComponent(message),
   ended |-> res.ended]

redirectToError(res, message, base) ==
  [statusCode |-> 302,
   location |-> IF Truthy(base)
                THEN StripTrailingSlashes(base) \o <<"?oauth=error&message=">>
                       \o encodeURIComponent(message)
                ELSE <<"/", "?oauth=error&message=">> \o encodeURIComponent(message),
   ended |-> res.ended + 1]

buildRedirectUri(req) ==
  LET host == IF IsDefined(req.host) THEN req.host ELSE <<"localhost">>
      protocol == IF req.encrypted THEN "https" ELSE "http"
  IN  <<protocol, "://">> \o host \o <<"/auth/callback">>

MsgMissing == <<"Missing", " ", "state", " ", "or", " ", "code">>

MsgInvalidState == <<"Invalid", " ", "or", " ", "expired", " ", "state">>

MsgNotFound == <<"Provider", " ", "or", " ", "OAuth", " ", "method", " ", "not", " ", "found">>

\* String(err) of what a collaborator throws
ErrExchange == <<"Error", ":", " ", "exchange">>

ErrUpsert == <<"Error", ":", " ", "profile">>

ErrWrite == <<"Error", ":", " ", "write">>

\* String(err) of a rejected readConfigFileSnapshot, or of a throwing
\* applyLegacyMigrations or validateConfigObjectWithPlugins
ErrConfig == <<"Error", ":", " ", "config">>

ErrStart == <<"Error", ":", " ", "start">>

(***************************************************************************)
(* The Control UI's chat controller (ui/controllers/chat.ts).  Nullable    *)
(* and optional fields hold tagged values: JsonNull, NoValue, Str, Arr,    *)
(* Num, Bool.                                                              *)
(***************************************************************************)
Num(n) == [k |-> "num", f |-> <<n>>]

Bool(b) == [k |-> "bool", f |-> <<b>>]

\* generateUUID(): the n-th identifier drawn, never drawn before
RunChars == <<"r", "s", "t">>

generateUUID(n) == <<RunChars[n]>>

SessionKey == <<"main">>

\* the ChatState of a freshly created app.  chatLoading, chatThinkingLevel,
\* chatMessage and chatAttachments are left out: neither sendChatMessage nor
\* handleChatEvent reads or writes them.
FreshChat(connected) ==
  [client |-> TRUE, connected |-> connected, sessionKey |-> SessionKey,
   chatMessages |-> << >>, chatSending |-> FALSE,
   chatRunId |-> JsonNull, chatStream |-> JsonNull, chatStreamStartedAt |-> JsonNull,
   lastError |-> JsonNull,
   activityLog |-> NoValue, llmLogLastAtMs |-> NoValue, llmFirstTokenSeen |-> NoValue]

\* no chat controller call has returned
NoChatCall == [fn |-> "none", payload |-> NoValue, value |-> NoValue, n |-> 0]

ChatAtRest ==
  /\ chat = FreshChat(TRUE)
  /\ sends = << >>
  /\ chatRet = NoChatCall

\* [...].slice(-800)
SliceLast800(s) == IF Len(s) > 800 THEN SubSeq(s, Len(s) - 799, Len(s)) ELSE s

\* Array.isArray(state.activityLog) ? state.activityLog : []
LogOf(state) == IF state.activityLog.k = "arr" THEN state.activityLog.f ELSE << >>

LogEntry(t, event, level, text, runId) ==
  [ts |-> t, event |-> event, level |-> level, text |-> text, runId |-> runId]

WithLog(state, entries) ==
  [state EXCEPT !.activityLog = Arr(SliceLast800(LogOf(state) \o entries))]

\* a string that is not empty (truthiness of string | null)
TruthyStr(v) == v.k = "str" /\ v.f # << >>

\* extractText(message) (chat/message-extract): the text of the message,
\* or null when it has none
extractText(message) == IF message.k = "str" THEN message ELSE JsonNull

\* lines 195-231: a delta event
ChatDelta(state, payload, t) ==
  LET next == extractText(payload.message)
      prev == IF state.chatStream.k = "str" THEN state.chatStream.f ELSE << >>
      s1 == IF prev = << >> \/ Len(next.f) >= Len(prev)
            THEN [state EXCEPT !.chatStream = next]
            ELSE state
      runId == IF state.chatRunId # JsonNull THEN state.chatRunId.f ELSE payload.runId
      s2 == IF s1.llmFirstTokenSeen # Bool(TRUE) /\ Len(next.f) > 0
            THEN [WithLog(s1, <<LogEntry(t, "phase", "info", "answering", runId)>>)
                    EXCEPT !.llmFirstTokenSeen = Bool(TRUE)]
            ELSE s1
      lastAt == IF s2.llmLogLastAtMs.k = "num" THEN s2.llmLogLastAtMs.f[1] ELSE 0
      s3 == IF t - lastAt >= 900
            THEN [WithLog(s2, <<LogEntry(t, "stream", "info", Len(next.f), runId)>>)
                    EXCEPT !.llmLogLastAtMs = Num(t)]
            ELSE s2
  IN  IF next.k = "str" THEN s3 ELSE state

\* the run is not cleared
ChatCleared_KeepRun(state) ==
  [state EXCEPT !.chatStream = JsonNull, !.chatStreamStartedAt = JsonNull]

\* lines 246-248, 263-265, 281-283: the run is cleared
ChatCleared(state) ==
  [state EXCEPT !.chatStream = JsonNull, !.chatRunId = JsonNull,
                !.chatStreamStartedAt = JsonNull]

DefaultChatError == <<"chat", " ", "error">>

\* payload.errorMessage ?? "chat error"
ErrorMessageOf(payload) ==
  IF IsDefined(payload.errorMessage) THEN payload.errorMessage ELSE DefaultChatError

\* lines 232-285: a final, aborted or error event
ChatTerminal(state, payload, t) ==
  LET logged ==
        CASE payload.state = "final" ->
               WithLog(state, <<LogEntry(t, "phase", "info", "done", payload.runId)>>)
          [] payload.state = "aborted" ->
               WithLog(state, <<LogEntry(t, "phase", "warn", "aborted", payload.runId)>>)
          [] OTHER ->
               WithLog(state, <<LogEntry(t, "phase", "error", ErrorMessageOf(payload),
                                         payload.runId)>>)
  IN  IF payload.state = "error"
      THEN [ChatCleared(logged) EXCEPT !.lastError = Str(ErrorMessageOf(payload))]
      ELSE ChatCleared(logged)

\* no event is taken for one of another run
OtherRun_Never(state, payload) == FALSE

\* lines 186-190: the event is of another run than the active one
OtherRun(state, payload) ==
  /\ payload.runId # << >>
  /\ TruthyStr(state.chatRunId)
  /\ Str(payload.runId) # state.chatRunId

\* handleChatEvent(state, payload): the state it leaves and what it returns
handleChatEvent(state, payload, t) ==
  IF payload = NoValue THEN [state |-> state, value |-> JsonNull]
  ELSE IF payload.sessionKey # state.sessionKey THEN [state |-> state, value |-> JsonNull]
  ELSE IF OtherRun(state, payload)
  THEN [state |-> state,
        value |-> IF payload.state = "final" THEN Str(<<"final">>) ELSE JsonNull]
  ELSE [state |-> IF payload.state = "delta" THEN ChatDelta(state, payload, t)
                  ELSE IF payload.state \in {"final", "aborted", "error"}
                  THEN ChatTerminal(state, payload, t)
                  ELSE state,
        value |-> Str(<<payload.state>>)]

(***************************************************************************)
(* Handler invocations.  A handler runs without interruption between two   *)
(* awaits; an invocation waiting on an await holds a slot.                 *)
(***************************************************************************)
\* Number of handler invocations that can be in flight together.
MaxReqs == 2

\* Number of authorization flows the RPC starts (each draws one token).
MaxFlows == 1

Slots == 1..MaxReqs

NoExchange == [profiles |-> << >>, configPatch |-> NoValue]

IdleSlot ==
  [kind |-> "idle", pc |-> "idle", state |-> Undefined, code |-> Undefined,
   entry |-> Null, redirectUri |-> Undefined, method |-> Null,
   result |-> NoExchange, upserted |-> 0, toWrite |-> NoValue, res |-> FreshResponse]

\* What is recorded of the invocation that returned last: the request line and
\* the state it carried, whether the store held that state when the request
\* arrived, whether it got an entry from the store, the branch it returned from, what it sent (res of the callback, respond calls of an RPC),
\* and the exchange result, profile writes and document written by a callback.
NoneDone ==
  [kind |-> "none", method |-> "", pathname |-> "", state |-> Undefined,
   had |-> FALSE, got |-> FALSE, path |-> "", handled |-> FALSE, res |-> FreshResponse,
   responses |-> << >>, result |-> NoExchange, upserted |-> 0, wrote |-> NoValue]

\* the configuration file before the first request: empty, or not valid
BogusDoc == Rec("bogus" :> Str(<<"v">>))

InitialConfigs == {EmptyDoc, BogusDoc}

\* no handler has written the configuration
NoWrites == [callback |-> NoValue, apiKey |-> NoValue]

\* no helper function has been called directly
NoCall == [fn |-> "none", args |-> << >>, done |-> FALSE, result |-> Null]

HandlersAtRest ==
  /\ providers = Catalog
  /\ authProfiles = << >>
  /\ slot = [r \in Slots |-> IdleSlot]
  /\ lastDone = NoneDone
  /\ obtained = [t \in Tokens |-> 0]
  /\ exchangeCalls = [t \in Tokens |-> 0]
  /\ started = << >>
  /\ writes = NoWrites
  /\ ChatAtRest

(***************************************************************************)
(* Inputs of the direct store calls.                                       *)
(***************************************************************************)
EntryInputs ==
  { [providerId |-> <<"a">>, methodId |-> <<"x">>, agentDir |-> <<"d">>,
     workspaceDir |-> <<"w">>, successRedirectBase |-> <<"u">>],
    [providerId |-> <<"b">>, methodId |-> <<"y">>, agentDir |-> Undefined,
     workspaceDir |-> <<"v">>, successRedirectBase |-> Undefined] }

\* a state string that is no token (never issued)
UnknownState == <<"f">>

IssuedTokens == { Token(n) : n \in 1..nIssued }

\* The state strings a caller can present: the tokens issued so far, and a
\* string that is no token.  A token not yet drawn cannot be presented (it
\* is 256 random bits).
Presentable == IssuedTokens \cup {UnknownState}

StateInputs == Tokens \cup {UnknownState}

NoStoreCall ==
  [op |-> "none", state |-> Undefined, at |-> 0, had |-> FALSE,
   nth |-> 0, result |-> Null]

StoreInit ==
  /\ now = 0
  /\ stateMap = << >>
  /\ nIssued = 0
  /\ issuedEntry = << >>
  /\ consumeCount = [s \in StateInputs |-> 0]
  /\ firstFound = {}
  /\ lastStore = NoStoreCall
  /\ call = NoCall
  /\ configFile = EmptyDoc
  /\ HandlersAtRest

Bump(n) == IF n < 2 THEN n + 1 ELSE 2

\* time passes between two calls
Tick ==
  /\ now < MaxTicks
  /\ now' = now + 1
  /\ UNCHANGED <<uiVars, writes, started, call, stateMap, nIssued, storeHist, handlerVars>>

\* a direct call createOAuthState(entry)
StoreCreate(entry) ==
  /\ nIssued < MaxTokens
  /\ LET state == Token(nIssued + 1)
     IN  /\ stateMap' = createOAuthState(stateMap, entry, state, DateNow)
         /\ nIssued' = nIssued + 1
         /\ issuedEntry' = [s \in DOMAIN issuedEntry \cup {state} |->
                              IF s = state THEN WithCreatedAt(entry, DateNow)
                              ELSE issuedEntry[s]]
         /\ lastStore' = [op |-> "create", state |-> state, at |-> DateNow,
                          had |-> FALSE, nth |-> 0, result |-> Null]
  /\ UNCHANGED <<uiVars, writes, started, call, now, consumeCount, firstFound, handlerVars>>

\* a direct call consumeOAuthState(state)
StoreConsume(state) ==
  /\ stateMap' = consumeDelete(stateMap, state)
  /\ consumeCount' = [consumeCount EXCEPT ![state] = Bump(@)]
  /\ firstFound' =
       IF consumeCount[state] = 0 /\ consumeResult(stateMap, state, DateNow) # Null
       THEN firstFound \cup {state}
       ELSE firstFound
  /\ lastStore' = [op |-> "consume", state |-> state, at |-> DateNow,
                   had |-> state \in DOMAIN stateMap,
                   nth |-> Bump(consumeCount[state]),
                   result |-> consumeResult(stateMap, state, DateNow)]
  /\ UNCHANGED <<uiVars, writes, started, call, now, nIssued, issuedEntry, handlerVars>>

StoreNext ==
  \/ Tick
  \/ \E entry \in EntryInputs : StoreCreate(entry)
  \/ \E state \in Presentable : StoreConsume(state)

SpecStore == StoreInit /\ [][StoreNext]_vars

(***************************************************************************)
(* GET /auth/callback: handleAuthCallbackRequest.                          *)
(***************************************************************************)
Req(method, pathname, state, code, error, description) ==
  [method |-> method, pathname |-> pathname, state |-> state, code |-> code,
   error |-> error, error_description |-> description,
   host |-> <<"h">>, encrypted |-> FALSE]

ACode == <<"c">>

\* the requests a client can send
CallbackRequests ==
  { Req("POST", "/auth/callback", s, ACode, Undefined, Undefined) : s \in IssuedTokens }
  \cup { Req("GET", "/other", UnknownState, ACode, Undefined, Undefined) }
  \cup { Req("GET", "/auth/callback", s, ACode, Undefined, Undefined) :
           s \in Presentable \cup {<<" ", "1", " ">>} }
  \cup { Req("GET", "/auth/callback", UnknownState, ACode, <<" ">>, Undefined),
         Req("GET", "/auth/callback", Undefined, ACode, Undefined, Undefined),
         Req("GET", "/auth/callback", UnknownState, <<" ">>, Undefined, Undefined) }
  \cup { Req("GET", "/auth/callback", s, ACode, <<"e">>, Undefined) : s \in IssuedTokens }
  \cup { Req("GET", "/auth/callback", UnknownState, ACode, <<"e">>, d) :
           d \in {<<" ">>, <<"U", " ", "c", " ">>} }
  \cup { Req("GET", "/auth/callback", Undefined, Undefined, <<" ", "e">>, Undefined) }
  \cup { Req("GET", "/auth/callback", s, Undefined, Undefined, Undefined) : s \in IssuedTokens }

\* lines 87-123: how far the request gets before the state store is touched
CallbackStage_PostToo(req) ==
  IF req.pathname # "/auth/callback" THEN "declined"
  ELSE IF Truthy(OptTrim(req.error)) THEN "provider_error"
  ELSE IF ~Truthy(OptTrim(req.state)) \/ ~Truthy(OptTrim(req.code)) THEN "missing"
  ELSE "consume"

\* the code is not looked at before the store is
CallbackStage_StateOnly(req) ==
  IF req.method # "GET" THEN "declined"
  ELSE IF req.pathname # "/auth/callback" THEN "declined"
  ELSE IF Truthy(OptTrim(req.error)) THEN "provider_error"
  ELSE IF ~Truthy(OptTrim(req.state)) THEN "missing"
  ELSE "consume"

CallbackStage_ErrorChecked_Last(req) ==
  IF req.method # "GET" THEN "declined"
  ELSE IF req.pathname # "/auth/callback" THEN "declined"
  ELSE IF ~Truthy(OptTrim(req.state)) \/ ~Truthy(OptTrim(req.code))
       THEN (IF Truthy(OptTrim(req.error)) THEN "provider_error" ELSE "missing")
  ELSE "consume"

CallbackStage(req) ==
  IF req.method # "GET" THEN "declined"
  ELSE IF req.pathname # "/auth/callback" THEN "declined"
  ELSE IF Truthy(OptTrim(req.error)) THEN "provider_error"
  ELSE IF ~Truthy(OptTrim(req.state)) \/ ~Truthy(OptTrim(req.code)) THEN "missing"
  ELSE "consume"

\* line 115: the message of a provider-initiated error
ProviderErrorMessage(req) ==
  IF Truthy(OptTrim(req.error_description))
  THEN OptTrim(req.error_description)
  ELSE OptTrim(req.error)

HasFree == \E r \in Slots : slot[r].kind = "idle"

FreeSlot == CHOOSE r \in Slots : slot[r].kind = "idle" /\ \A q \in 1..(r - 1) : slot[q].kind # "idle"

CallbackDone(method, pathname, state, had, got, path, handled, res, result, upserted, wrote) ==
  [kind |-> "callback", method |-> method, pathname |-> pathname, state |-> state,
   had |-> had, got |-> got, path |-> path, handled |-> handled, res |-> res,
   responses |-> << >>, result |-> result, upserted |-> upserted, wrote |-> wrote]

BumpAt(f, t) == IF t \in DOMAIN f THEN [f EXCEPT ![t] = Bump(@)] ELSE f

\* The handler from its entry to its first await (or to its return).
CallbackBegin(req) ==
  LET stage == CallbackStage(req)
      state == OptTrim(req.state)
      code == OptTrim(req.code)
      entry == consumeResult(stateMap, state, DateNow)
      provider == IF entry = Null THEN Null
                  ELSE resolveProviderMatchCb(providers, entry.providerId)
      method == IF provider = Null THEN Null
                ELSE findOAuthMethod(provider, entry.methodId)
      finish(path, handled, res) ==
        /\ lastDone' = CallbackDone(req.method, req.pathname, state,
                                    state \in DOMAIN stateMap,
                                    entry # Null /\ stage = "consume",
                                    path, handled, res, NoExchange, 0, NoValue)
        /\ slot' = slot
        /\ exchangeCalls' = exchangeCalls
  IN  /\ UNCHANGED <<uiVars, writes, started, call, now, nIssued, storeHist, providers,
                     configFile, authProfiles>>
      /\ IF stage = "declined"
         THEN /\ finish("declined", FALSE, FreshResponse)
              /\ UNCHANGED <<stateMap, obtained>>
         ELSE IF stage = "provider_error"
         THEN /\ finish("provider_error", TRUE,
                        redirectToError(FreshResponse, ProviderErrorMessage(req), Undefined))
              /\ UNCHANGED <<stateMap, obtained>>
         ELSE IF stage = "missing"
         THEN /\ finish("missing", TRUE,
                        redirectToError(FreshResponse, MsgMissing, Undefined))
              /\ UNCHANGED <<stateMap, obtained>>
         ELSE /\ stateMap' = consumeDelete(stateMap, state)
              /\ obtained' = IF entry # Null THEN BumpAt(obtained, state) ELSE obtained
              /\ IF entry = Null
                 THEN finish("invalid_state", TRUE,
                             redirectToError(FreshResponse, MsgInvalidState, Undefined))
                 ELSE IF provider = Null \/ method = Null \/ ~method.oauthCallback
                 THEN finish("not_found", TRUE,
                             redirectToError(FreshResponse, MsgNotFound,
                                             entry.successRedirectBase))
                 ELSE /\ HasFree
                      /\ slot' = [slot EXCEPT ![FreeSlot] =
                                    [kind |-> "callback", pc |-> "oauthCallback",
                                     state |-> state, code |-> code, entry |-> entry,
                                     redirectUri |-> buildRedirectUri(req),
                                     method |-> method, result |-> NoExchange,
                                     upserted |-> 0, toWrite |-> NoValue,
                                     res |-> FreshResponse]]
                      /\ exchangeCalls' = BumpAt(exchangeCalls, state)
                      /\ lastDone' = lastDone

\* what method.oauthCallback can resolve to
Profile(profileId, type) ==
  [profileId |-> profileId, credential |-> [type |-> type, provider |-> <<"a">>]]

ExchangeResults ==
  { [profiles |-> <<Profile("p2", "token"), Profile("p3", "api_key")>>,
     configPatch |-> Rec(("models" :> Rec("a" :> Str(<<"u">>))) @@ ("legacy" :> Str(<<"v">>)))],
    [profiles |-> <<Profile("p2", "token")>>,
     configPatch |-> Rec("bogus" :> Str(<<"1">>))] }

upsertAll_None(store, profiles, agentDir, n) == store

\* upsertAuthProfile for the first n profiles of the result
RECURSIVE upsertAll(_, _, _, _)
upsertAll(store, profiles, agentDir, n) ==
  IF n = 0 THEN store
  ELSE LET before == upsertAll(store, profiles, agentDir, n - 1)
           profile == profiles[n]
       IN  [id \in DOMAIN before \cup {profile.profileId} |->
              IF id = profile.profileId
              THEN [credential |-> profile.credential, agentDir |-> agentDir]
              ELSE before[id]]

\* writeConfigFile(doc) (config/config): the file holds the document
writeConfigFile_Merge(file, doc) == mergeConfigPatch(file, doc)

writeConfigFile(file, doc) == doc

\* the invocation in slot r has written its document
Written(r) == [writes EXCEPT ![slot[r].kind] = slot[r].toWrite]

Finish(r, path, res, result, upserted, wrote) ==
  /\ lastDone' = CallbackDone("GET", "/auth/callback", slot[r].state, TRUE, TRUE, path, TRUE, res,
                              result, upserted, wrote)
  /\ slot' = [slot EXCEPT ![r] = IdleSlot]

\* await method.oauthCallback(..) settles; then the profile writes (lines 143-160)
ExchangeReturn(r) ==
  /\ slot[r].kind = "callback" /\ slot[r].pc = "oauthCallback"
  /\ UNCHANGED <<uiVars, writes, started, call, now, stateMap, nIssued, storeHist, providers,
                 configFile, obtained, exchangeCalls>>
  /\ \/ \* the exchange throws
        /\ Finish(r, "exchange_failed",
                  redirectToError(slot[r].res, ErrExchange, slot[r].entry.successRedirectBase),
                  NoExchange, 0, NoValue)
        /\ authProfiles' = authProfiles
     \/ \E result \in ExchangeResults :
          \E n \in 0..Len(result.profiles) :
            \* the first n profile writes succeed; the next one, if any, throws
            /\ authProfiles' = upsertAll(authProfiles, result.profiles, slot[r].entry.agentDir, n)
            /\ IF n < Len(result.profiles)
               THEN Finish(r, "upsert_failed",
                           redirectToError(slot[r].res, ErrUpsert,
                                           slot[r].entry.successRedirectBase),
                           result, n, NoValue)
               ELSE /\ slot' = [slot EXCEPT ![r].pc = "readSnapshot", ![r].result = result,
                                            ![r].upserted = n]
                    /\ lastDone' = lastDone

\* await readConfigFileSnapshot() settles; merge, migrate, validate (lines 160-177)
SnapshotReturn(r) ==
  /\ slot[r].kind = "callback" /\ slot[r].pc = "readSnapshot"
  /\ UNCHANGED <<uiVars, writes, started, call, now, stateMap, nIssued, storeHist, providers,
                 configFile, authProfiles, obtained, exchangeCalls>>
  /\ \/ \* the read rejects, or the migration or the validation throws
        Finish(r, "config_failed",
               redirectToError(slot[r].res, ErrConfig, slot[r].entry.successRedirectBase),
               slot[r].result, slot[r].upserted, NoValue)
     \/ LET snapshot == readConfigFileSnapshot(configFile)
            toWrite == ConfigToWrite(snapshot.config, slot[r].result)
        IN  IF ~snapshot.valid
            THEN Finish(r, "snapshot_invalid",
                        redirectToSuccess(slot[r].res, slot[r].entry.successRedirectBase),
                        slot[r].result, slot[r].upserted, NoValue)
            ELSE IF toWrite = NoValue
            THEN Finish(r, "validation_failed",
                        redirectToSuccess(slot[r].res, slot[r].entry.successRedirectBase),
                        slot[r].result, slot[r].upserted, NoValue)
            ELSE /\ slot' = [slot EXCEPT ![r].pc = "writeConfig", ![r].toWrite = toWrite]
                 /\ lastDone' = lastDone

\* await writeConfigFile(validated.config) settles (lines 177-184)
WriteReturn(r) ==
  /\ slot[r].kind = "callback" /\ slot[r].pc = "writeConfig"
  /\ UNCHANGED <<uiVars, started, call, now, stateMap, nIssued, storeHist, providers,
                 authProfiles, obtained, exchangeCalls>>
  /\ \/ /\ configFile' = writeConfigFile(configFile, slot[r].toWrite)
        /\ writes' = Written(r)
        /\ Finish(r, "written",
                  redirectToSuccess(slot[r].res, slot[r].entry.successRedirectBase),
                  slot[r].result, slot[r].upserted, slot[r].toWrite)
     \/ \* the write throws
        /\ configFile' = configFile
        /\ writes' = writes
        /\ Finish(r, "write_failed",
                  redirectToError(slot[r].res, ErrWrite, slot[r].entry.successRedirectBase),
                  slot[r].result, slot[r].upserted, NoValue)

(***************************************************************************)
(* RPC models.auth.oauthStart.                                             *)
(***************************************************************************)
StartParam(p, m, u, b, extra) ==
  [providerId |-> p, methodId |-> m, redirectUri |-> u,
   successRedirectBase |-> b, extra |-> extra]

\* the params a client can send
StartParams ==
  { StartParam(<<"a">>, Undefined, <<"g">>, <<" ">>, FALSE),
    StartParam(<<" ", "O">>, <<"Y">>, <<"g", "/", "/">>, <<" ", "u", "/">>, FALSE),
    StartParam(<<"a">>, <<"x", " ", "b">>, <<"g">>, <<"u", "/", "/">>, FALSE),
    StartParam(<<"a">>, <<"z">>, <<"g">>, Undefined, FALSE),
    StartParam(<<"c">>, Undefined, <<"g">>, Undefined, TRUE),
    StartParam(<<"a">>, Undefined, Undefined, Undefined, FALSE),
    StartParam(<<"a">>, <<" ">>, <<" ">>, Undefined, FALSE) }
  \cup { StartParam(p, Undefined, u, Undefined, FALSE) :
           p \in {<<"b">>, <<"c">>, <<"z">>}, u \in {Undefined, <<"g">>} }
  \cup { StartParam(p, Undefined, <<"g">>, Undefined, FALSE) : p \in {<<" ">>, << >>} }

\* ModelsAuthOAuthStartParamsSchema: providerId a non-empty string, the other
\* three optional strings, no additional property
validateModelsAuthOAuthStartParams(params) ==
  /\ ~params.extra
  /\ IsDefined(params.providerId)
  /\ Len(params.providerId) >= 1

\* lines 139-209: where the handler stops before it creates a state
StartStage_NoRedirectCheck(params, list) ==
  IF ~validateModelsAuthOAuthStartParams(params) THEN "invalid_params"
  ELSE LET provider == resolveProviderMatch(list, params.providerId)
           method == IF provider = Null THEN Null
                     ELSE pickOAuthMethod(provider, params.methodId)
       IN  IF provider = Null THEN "unknown_provider"
           ELSE IF method = Null THEN "no_method"
           ELSE IF ~method.oauthStart THEN "no_start"
           ELSE "create"

StartStage(params, list) ==
  IF ~validateModelsAuthOAuthStartParams(params) THEN "invalid_params"
  ELSE LET provider == resolveProviderMatch(list, params.providerId)
           method == IF provider = Null THEN Null
                     ELSE pickOAuthMethod(provider, params.methodId)
       IN  IF provider = Null THEN "unknown_provider"
           ELSE IF method = Null THEN "no_method"
           ELSE IF ~method.oauthStart THEN "no_start"
           ELSE IF ~Truthy(OptTrim(params.redirectUri)) THEN "no_redirect"
           ELSE "create"

NoResult == [url |-> Undefined, state |-> Undefined]

NoError == [code |-> "", message |-> Undefined]

\* respond(false, undefined, errorShape(code, message))
ErrorResponse(code, message) ==
  [ok |-> FALSE, result |-> NoResult, error |-> [code |-> code, message |-> message]]

\* respond(true, result, undefined)
OkResponse(result) == [ok |-> TRUE, result |-> result, error |-> NoError]

\* the respond callback of a request: what it has been called with so far
respond_Twice(sent, response) == Append(Append(sent, response), response)

respond(sent, response) == Append(sent, response)

\* the error code of each early return
StartErrorCode(stage) ==
  IF stage = "no_start" THEN "UNAVAILABLE" ELSE "INVALID_REQUEST"

StartErrorMessage(stage, params) ==
  CASE stage = "invalid_params" ->
         <<"invalid", " ", "models.auth.oauthStart", " ", "params">>
    [] stage = "unknown_provider" ->
         <<"Unknown", " ", "provider", ":", " ">> \o params.providerId
    [] stage = "no_method" ->
         <<"No", " ", "OAuth", " ", "auth", " ", "method", " ", "for", " ", "provider", " ">>
           \o params.providerId
    [] stage = "no_start" ->
         <<"OAuth", " ", "from", " ", "Control", " ", "UI", " ", "is", " ", "not", " ",
           "supported", " ", "for", " ", "this", " ", "provider", " ", "yet">>
    [] OTHER ->
         <<"redirectUri", " ", "is", " ", "required", " ", "for", " ", "OAuth", " ",
           "(gateway", " ", "base", " ", "URL)">>

StartDone(state, path, response) ==
  [kind |-> "start", method |-> "", pathname |-> "", state |-> state,
   had |-> FALSE, got |-> FALSE, path |-> path, handled |-> TRUE, res |-> FreshResponse,
   responses |-> respond(<< >>, response), result |-> NoExchange, upserted |-> 0,
   wrote |-> NoValue]

\* lines 210-216: the entry handed to createOAuthState
StartEntry_RawIds(provider, method, params) ==
  [providerId |-> params.providerId,
   methodId |-> IF IsDefined(params.methodId) THEN params.methodId ELSE method.id,
   agentDir |-> AgentDir,
   workspaceDir |-> WorkspaceDir,
   successRedirectBase |-> IF Truthy(OptTrim(params.successRedirectBase))
                           THEN OptTrim(params.successRedirectBase)
                           ELSE Undefined]

StartEntry(provider, method, params) ==
  [providerId |-> provider.id,
   methodId |-> method.id,
   agentDir |-> AgentDir,
   workspaceDir |-> WorkspaceDir,
   successRedirectBase |-> IF Truthy(OptTrim(params.successRedirectBase))
                           THEN OptTrim(params.successRedirectBase)
                           ELSE Undefined]

\* The handler from its entry to await method.oauthStart(..), or to its return.
StartBegin(params) ==
  LET stage == StartStage(params, providers)
      provider == resolveProviderMatch(providers, params.providerId)
      method == pickOAuthMethod(provider, params.methodId)
      state == Token(nIssued + 1)
      redirectUri == StripTrailingSlashes(params.redirectUri) \o <<"/auth/callback">>
  IN  /\ UNCHANGED <<uiVars, writes, call, now, storeHist, providers, configFile,
                     authProfiles, obtained, exchangeCalls>>
      /\ IF stage # "create"
         THEN /\ lastDone' = StartDone(Undefined, stage,
                               ErrorResponse(StartErrorCode(stage),
                                             StartErrorMessage(stage, params)))
              /\ UNCHANGED <<stateMap, nIssued, slot, started>>
         ELSE /\ HasFree
              /\ nIssued < MaxFlows
              /\ stateMap' = createOAuthState(stateMap, StartEntry(provider, method, params),
                                              state, DateNow)
              /\ nIssued' = nIssued + 1
              /\ slot' = [slot EXCEPT ![FreeSlot] =
                            [kind |-> "start", pc |-> "oauthStart",
                             state |-> state, code |-> Undefined, entry |-> Null,
                             redirectUri |-> redirectUri,
                             method |-> method, result |-> NoExchange,
                             upserted |-> 0, toWrite |-> NoValue,
                             res |-> FreshResponse]]
              /\ started' = (state :> [method |-> method, redirectUri |-> redirectUri])
                               @@ started
              /\ lastDone' = lastDone

\* the url of what method.oauthStart resolves to
AuthorizationUrls ==
  { <<"https", "://", "p", "/", "authorize">>, <<"https", "://", "q", "/", "login">> }

\* await method.oauthStart(..) settles (lines 217-227)
StartReturn(r) ==
  /\ slot[r].kind = "start" /\ slot[r].pc = "oauthStart"
  /\ UNCHANGED <<uiVars, writes, started, call, now, stateMap, nIssued, storeHist, providers,
                 configFile, authProfiles, obtained, exchangeCalls>>
  /\ slot' = [slot EXCEPT ![r] = IdleSlot]
  /\ \/ \E url \in AuthorizationUrls :
          lastDone' = StartDone(slot[r].state, "started",
                        OkResponse([url |-> url, state |-> slot[r].state]))
     \/ \* the start capability throws
        lastDone' = StartDone(slot[r].state, "start_failed",
                      ErrorResponse("UNAVAILABLE", ErrStart))

(***************************************************************************)
(* The gateway: both handlers, the plugin list and the clock.              *)
(***************************************************************************)
Init ==
  /\ now = 0
  /\ stateMap = << >>
  /\ nIssued = 0
  /\ issuedEntry = << >>
  /\ consumeCount = [s \in StateInputs |-> 0]
  /\ firstFound = {}
  /\ lastStore = NoStoreCall
  /\ call = NoCall
  /\ configFile \in InitialConfigs
  /\ HandlersAtRest

Next ==
  \/ Tick
  \/ \E req \in CallbackRequests : CallbackBegin(req)
  \/ \E r \in Slots : ExchangeReturn(r)
  \/ \E r \in Slots : SnapshotReturn(r)
  \/ \E r \in Slots : WriteReturn(r)
  \/ \E params \in StartParams : StartBegin(params)
  \/ \E r \in Slots : StartReturn(r)

Spec == Init /\ [][Next]_vars

(***************************************************************************)
(* The gateway while the plugin list changes between the start of a flow   *)
(* and its callback.                                                       *)
(***************************************************************************)
\* what resolvePluginProviders can return: the catalog; provider a removed;
\* provider a renamed; its oauth method x renamed; x without oauthCallback
LiveCatalogs ==
  { Catalog,
    <<ProviderB, ProviderC>>,
    <<[ProviderA EXCEPT !.id = <<"n">>, !.aliases = << >>], ProviderB, ProviderC>>,
    <<[ProviderA EXCEPT !.auth =
         <<MethodKey, [MethodX EXCEPT !.id = <<"r">>, !.label = <<"R">>], MethodY>>],
      ProviderB, ProviderC>>,
    <<[ProviderA EXCEPT !.auth =
         <<MethodKey, [MethodX EXCEPT !.oauthCallback = FALSE], MethodY>>],
      ProviderB, ProviderC>> }

\* plugins are loaded, unloaded or replaced
Reload(list) ==
  /\ list # providers
  /\ providers' = list
  /\ UNCHANGED <<uiVars, writes, started, call, now, stateMap, nIssued, storeHist, configFile,
                 authProfiles, slot, lastDone, obtained, exchangeCalls>>

LiveStartParams ==
  { StartParam(<<"a">>, Undefined, <<"g">>, Undefined, FALSE),
    StartParam(<<"a">>, <<"x", " ", "b">>, <<"g">>, <<"u", "/", "/">>, FALSE) }

LiveCallbackRequests ==
  { Req("GET", "/auth/callback", s, ACode, Undefined, Undefined) : s \in IssuedTokens }

NextLive ==
  \/ \E list \in LiveCatalogs : Reload(list)
  \/ \E params \in LiveStartParams : StartBegin(params)
  \/ \E r \in Slots : StartReturn(r)
  \/ \E req \in LiveCallbackRequests : CallbackBegin(req)
  \/ \E r \in Slots : ExchangeReturn(r)
  \/ \E r \in Slots : SnapshotReturn(r)
  \/ \E r \in Slots : WriteReturn(r)

SpecLive == Init /\ [][NextLive]_vars

(***************************************************************************)
(* RPC models.auth.apiKeySet.                                              *)
(***************************************************************************)
\* the label pass before the id pass
pickApiKeyOrTokenMethod_LabelFirst(provider, rawMethod) ==
  LET methods == SelectSeq(provider.auth, LAMBDA m : m.kind = "api_key" \/ m.kind = "token")
      raw == OptTrim(rawMethod)
      normalized == ToLowerCase(raw)
      byId == FirstIndex({ i \in 1..Len(methods) : ToLowerCase(methods[i].id) = normalized })
      byLabel == FirstIndex({ i \in 1..Len(methods) :
                   ToLowerCase(methods[i].label) = normalized })
  IN  IF Len(methods) = 0 THEN Null
      ELSE IF ~Truthy(raw) THEN methods[1]
      ELSE IF byLabel # 0 THEN methods[byLabel]
      ELSE IF byId # 0 THEN methods[byId]
      ELSE Null

pickApiKeyOrTokenMethod_AnyKind(provider, rawMethod) ==
  IF Len(provider.auth) = 0 THEN Null ELSE provider.auth[1]

IsKeyKind(m) == m.kind = "api_key" \/ m.kind = "token"

pickApiKeyOrTokenMethod(provider, rawMethod) ==
  LET methods == SelectSeq(provider.auth, IsKeyKind)
      raw == OptTrim(rawMethod)
      normalized == ToLowerCase(raw)
      byId == FirstIndex({ i \in 1..Len(methods) :
                ToLowerCase(methods[i].id) = normalized })
      byLabel == FirstIndex({ i \in 1..Len(methods) :
                   ToLowerCase(methods[i].label) = normalized })
  IN  IF Len(methods) = 0 THEN Null
      ELSE IF ~Truthy(raw) THEN methods[1]
      ELSE IF byId # 0 THEN methods[byId]
      ELSE IF byLabel # 0 THEN methods[byLabel]
      ELSE Null

ApiKeyParam(p, m, k, extra) ==
  [providerId |-> p, methodId |-> m, apiKey |-> k, extra |-> extra]

\* the params a client can send
ApiKeyParams ==
  { ApiKeyParam(<<"a">>, Undefined, <<" ", "1", " ">>, FALSE),
    ApiKeyParam(<<" ", "O">>, <<"K">>, <<"2">>, FALSE),
    ApiKeyParam(<<"b">>, Undefined, <<"1">>, FALSE),
    ApiKeyParam(<<"b">>, <<"t">>, <<"2">>, FALSE),
    ApiKeyParam(<<"a">>, <<"z">>, <<"1">>, FALSE),
    ApiKeyParam(<<"a">>, <<"x">>, <<"1">>, FALSE),
    ApiKeyParam(<<"c">>, Undefined, <<"1">>, FALSE),
    ApiKeyParam(<<"z">>, Undefined, <<"1">>, FALSE),
    ApiKeyParam(<<"a">>, Undefined, <<"1">>, TRUE),
    ApiKeyParam(<<"a">>, Undefined, Undefined, FALSE),
    ApiKeyParam(<< >>, Undefined, <<"1">>, FALSE) }
  \cup { ApiKeyParam(p, Undefined, k, FALSE) :
           p \in {<<"a">>, <<"b">>, <<"c">>, <<"z">>}, k \in {<< >>, <<" ", " ">>} }

\* ModelsAuthApiKeySetParamsSchema: providerId a non-empty string, methodId an
\* optional string, apiKey a string, no additional property
validateModelsAuthApiKeySetParams(params) ==
  /\ ~params.extra
  /\ IsDefined(params.providerId)
  /\ Len(params.providerId) >= 1
  /\ IsDefined(params.apiKey)

\* loadConfig (config/config): the configuration document of the file
loadConfig(file) == file

\* the property name a provider id is used as
PropertyKey(id) == id[1]

\* value?.[key]
GetField(value, key) ==
  IF value.k = "rec" /\ key \in DOMAIN value.f THEN value.f[key] ELSE NoValue

\* { ...value }
Spread(value) == IF value.k = "rec" THEN value.f ELSE << >>

\* { ...fields, [key]: value }
WithField(fields, key, value) ==
  [name \in DOMAIN fields \cup {key} |-> IF name = key THEN value ELSE fields[name]]

\* line 287: authMode
ApiKeyAuthMode_AlwaysApiKey(method) == <<"api-key">>

ApiKeyAuthMode(method) ==
  IF method.kind = "token" THEN <<"token">> ELSE <<"api-key">>

\* the default block whenever the existing one has no base URL or no model
\* list
ApiKeyBase_PreferUsable(config, provider) ==
  LET existing == GetField(GetField(GetField(config, "models"), "providers"),
                           PropertyKey(provider.id))
  IN  IF /\ existing.k = "rec"
         /\ GetField(existing, "baseUrl").k = "str"
         /\ GetField(existing, "models").k = "arr"
      THEN existing
      ELSE provider.models

\* lines 287-289: existing ?? defaultFromPlugin
ApiKeyBase(config, provider) ==
  LET existing == GetField(GetField(GetField(config, "models"), "providers"),
                           PropertyKey(provider.id))
  IN  IF existing # NoValue /\ existing # JsonNull THEN existing ELSE provider.models

\* lines 291-296: the block has a base URL and a model list
IsProviderConfig(base) ==
  /\ base.k = "rec"
  /\ "baseUrl" \in DOMAIN base.f /\ base.f["baseUrl"].k = "str"
  /\ "models" \in DOMAIN base.f /\ base.f["models"].k = "arr"

\* lines 307-314: the document handed to writeConfigFile
ApiKeyDocument(config, provider, base, trimmed, authMode) ==
  LET merged == Rec(WithField(WithField(base.f, "apiKey", Str(trimmed)),
                              "auth", Str(authMode)))
      models == GetField(config, "models")
      nextProviders == WithField(Spread(GetField(models, "providers")),
                                 PropertyKey(provider.id), merged)
      nextModels == WithField(Spread(models), "providers", Rec(nextProviders))
  IN  Rec(WithField(Spread(config), "models", Rec(nextModels)))

\* lines 231-305: where the handler stops before it writes
ApiKeyStage_NoTrim(params, list, config) ==
  IF ~validateModelsAuthApiKeySetParams(params) THEN "invalid_params"
  ELSE IF ~Truthy(params.apiKey) THEN "empty_key"
  ELSE LET provider == resolveProviderMatch(list, params.providerId)
           method == IF provider = Null THEN Null
                     ELSE pickApiKeyOrTokenMethod(provider, params.methodId)
       IN  IF provider = Null THEN "unknown_provider"
           ELSE IF method = Null THEN "no_method"
           ELSE IF ~IsProviderConfig(ApiKeyBase(config, provider)) THEN "no_default"
           ELSE "write"

ApiKeyStage(params, list, config) ==
  IF ~validateModelsAuthApiKeySetParams(params) THEN "invalid_params"
  ELSE IF ~Truthy(Trim(params.apiKey)) THEN "empty_key"
  ELSE LET provider == resolveProviderMatch(list, params.providerId)
           method == IF provider = Null THEN Null
                     ELSE pickApiKeyOrTokenMethod(provider, params.methodId)
       IN  IF provider = Null THEN "unknown_provider"
           ELSE IF method = Null THEN "no_method"
           ELSE IF ~IsProviderConfig(ApiKeyBase(config, provider)) THEN "no_default"
           ELSE "write"

ApiKeyErrorCode_AllInvalid(stage) == "INVALID_REQUEST"

\* the error code of each early return
ApiKeyErrorCode(stage) ==
  IF stage = "no_default" THEN "UNAVAILABLE" ELSE "INVALID_REQUEST"

ApiKeyErrorMessage(stage, params) ==
  CASE stage = "invalid_params" ->
         <<"invalid", " ", "models.auth.apiKeySet", " ", "params">>
    [] stage = "empty_key" ->
         <<"apiKey", " ", "is", " ", "required", " ", "and", " ", "must", " ", "be", " ",
           "non-empty">>
    [] stage = "unknown_provider" ->
         <<"Unknown", " ", "provider", ":", " ">> \o params.providerId
    [] stage = "no_method" ->
         <<"No", " ", "API", " ", "key", " ", "or", " ", "token", " ", "auth", " ", "method",
           " ", "for", " ", "provider", " ">> \o params.providerId
    [] OTHER ->
         <<"Provider", " ">> \o params.providerId
           \o <<" ", "has", " ", "no", " ", "default", " ", "config;", " ", "add", " ",
                "provider", " ", "config", " ", "first", " ", "or", " ", "use", " ", "CLI.">>

\* respond(true, { ok: true }, undefined)
ApiKeyOk == [ok |-> TRUE, result |-> [ok |-> TRUE], error |-> NoError]

\* lines 316-318: the catch of the handler
ApiKeyCatch_Swallow(err) == ApiKeyOk

ApiKeyCatch(err) == ErrorResponse("UNAVAILABLE", err)

ApiKeyDone(path, response, wrote) ==
  [kind |-> "apiKey", method |-> "", pathname |-> "", state |-> Undefined,
   had |-> FALSE, got |-> FALSE, path |-> path, handled |-> TRUE, res |-> FreshResponse,
   responses |-> respond(<< >>, response), result |-> NoExchange, upserted |-> 0,
   wrote |-> wrote]

\* The handler from its entry to await writeConfigFile(..), or to its return.
ApiKeySetBegin(params) ==
  LET config == loadConfig(configFile)
      stage == ApiKeyStage(params, providers, config)
      provider == resolveProviderMatch(providers, params.providerId)
      method == pickApiKeyOrTokenMethod(provider, params.methodId)
  IN  /\ UNCHANGED <<uiVars, writes, started, call, now, stateMap, nIssued, storeHist,
                     providers, configFile, authProfiles, obtained, exchangeCalls>>
      /\ IF stage # "write"
         THEN /\ lastDone' = ApiKeyDone(stage,
                               ErrorResponse(ApiKeyErrorCode(stage),
                                             ApiKeyErrorMessage(stage, params)),
                               NoValue)
              /\ slot' = slot
         ELSE /\ HasFree
              /\ slot' = [slot EXCEPT ![FreeSlot] =
                            [kind |-> "apiKey", pc |-> "writeConfig",
                             state |-> Undefined, code |-> Undefined, entry |-> Null,
                             redirectUri |-> Undefined, method |-> method,
                             result |-> NoExchange, upserted |-> 0,
                             toWrite |-> ApiKeyDocument(config, provider,
                                           ApiKeyBase(config, provider),
                                           Trim(params.apiKey), ApiKeyAuthMode(method)),
                             res |-> FreshResponse]]
              /\ lastDone' = lastDone

\* await writeConfigFile(..) settles (lines 314-318)
ApiKeyWriteReturn(r) ==
  /\ slot[r].kind = "apiKey" /\ slot[r].pc = "writeConfig"
  /\ UNCHANGED <<uiVars, started, call, now, stateMap, nIssued, storeHist, providers,
                 authProfiles, obtained, exchangeCalls>>
  /\ slot' = [slot EXCEPT ![r] = IdleSlot]
  /\ \/ /\ configFile' = writeConfigFile(configFile, slot[r].toWrite)
        /\ writes' = Written(r)
        /\ lastDone' = ApiKeyDone("written", ApiKeyOk, slot[r].toWrite)
     \/ \* the write throws
        /\ configFile' = configFile
        /\ writes' = writes
        /\ lastDone' = ApiKeyDone("write_failed", ApiKeyCatch(ErrWrite), NoValue)

\* the configuration before the first request: empty, with a block for b, or
\* with a block for a that lacks the base URL
ConfigWithB ==
  Rec(("gateway" :> Str(<<"g">>))
      @@ ("models" :> Rec(("mode" :> Str(<<"merge">>))
                          @@ ("providers" :> Rec(("b" :> ProviderBlock(<<"https", "://", "b">>))
                                                 @@ ("o" :> ProviderBlock(<<"https", "://", "o">>)))))))

ConfigWithPartialA ==
  Rec("models" :> Rec("providers" :> Rec("a" :> Rec("apiKey" :> Str(<<"0">>)))))

InitialKeyConfigs == {EmptyDoc, ConfigWithB, ConfigWithPartialA}

InitApiKey ==
  /\ now = 0
  /\ stateMap = << >>
  /\ nIssued = 0
  /\ issuedEntry = << >>
  /\ consumeCount = [s \in StateInputs |-> 0]
  /\ firstFound = {}
  /\ lastStore = NoStoreCall
  /\ call = NoCall
  /\ configFile \in InitialKeyConfigs
  /\ HandlersAtRest

NextApiKey ==
  \/ \E params \in ApiKeyParams : ApiKeySetBegin(params)
  \/ \E r \in Slots : ApiKeyWriteReturn(r)

SpecApiKey == InitApiKey /\ [][NextApiKey]_vars

(***************************************************************************)
(* The gateway while an OAuth callback and set-api-key requests write the  *)
(* configuration.                                                          *)
(***************************************************************************)
WriterStartParams == { StartParam(<<"a">>, Undefined, <<"g">>, Undefined, FALSE) }

WriterKeyParams ==
  { ApiKeyParam(<<"b">>, Undefined, <<"1">>, FALSE),
    ApiKeyParam(<<"a">>, Undefined, <<"2">>, FALSE) }

InitWriters ==
  /\ now = 0
  /\ stateMap = << >>
  /\ nIssued = 0
  /\ issuedEntry = << >>
  /\ consumeCount = [s \in StateInputs |-> 0]
  /\ firstFound = {}
  /\ lastStore = NoStoreCall
  /\ call = NoCall
  /\ configFile = ConfigWithB
  /\ HandlersAtRest

NextWriters ==
  \/ \E params \in WriterStartParams : StartBegin(params)
  \/ \E r \in Slots : StartReturn(r)
  \/ \E req \in LiveCallbackRequests : CallbackBegin(req)
  \/ \E r \in Slots : ExchangeReturn(r)
  \/ \E r \in Slots : SnapshotReturn(r)
  \/ \E r \in Slots : WriteReturn(r)
  \/ \E params \in WriterKeyParams : ApiKeySetBegin(params)
  \/ \E r \in Slots : ApiKeyWriteReturn(r)

SpecWriters == InitWriters /\ [][NextWriters]_vars

(***************************************************************************)
(* One OAuth flow from models.auth.oauthStart to the callback, over        *)
(* provider lists that stay as they are during the flow, callers that      *)
(* supply different bases and callbacks that arrive on different sockets.  *)
(***************************************************************************)
\* two oauth methods of one provider: the label of the first is the id of
\* the second up to case
MethodLabelY ==
  [id |-> <<"b">>, label |-> <<"Y">>, kind |-> "oauth",
   oauthStart |-> TRUE, oauthCallback |-> TRUE]

MethodIdY ==
  [id |-> <<"y">>, label |-> <<"C">>, kind |-> "oauth",
   oauthStart |-> TRUE, oauthCallback |-> TRUE]

ProviderTwins == [ProviderA EXCEPT !.auth = <<MethodKey, MethodLabelY, MethodIdY>>]

\* what resolvePluginProviders returns, the same at start and at callback
FlowCatalogs == { Catalog, <<ProviderTwins, ProviderB>> }

\* the gateway base URLs a caller supplies: the address the gateway is
\* reached at by the browser, with and without a trailing slash, the same
\* address behind a proxy that terminates TLS, and under a path prefix
FlowBases ==
  { <<"http", "://", "h">>,
    <<"http", "://", "h", "/">>,
    <<"https", "://", "h">>,
    <<"http", "://", "h", "/", "ui">> }

FlowStartParams ==
  { StartParam(<<"a">>, m, u, Undefined, FALSE) :
      m \in {Undefined, <<"y">>, <<"Y">>, <<"x">>}, u \in FlowBases }

\* the callbacks of the issued tokens: with the Host header h or none, on a
\* plain or an encrypted socket
FlowCallbackRequests ==
  { [Req("GET", "/auth/callback", s, ACode, Undefined, Undefined)
       EXCEPT !.host = host, !.encrypted = encrypted] :
      s \in IssuedTokens, host \in {<<"h">>, Undefined}, encrypted \in BOOLEAN }

InitFlow ==
  /\ now = 0
  /\ stateMap = << >>
  /\ nIssued = 0
  /\ issuedEntry = << >>
  /\ consumeCount = [s \in StateInputs |-> 0]
  /\ firstFound = {}
  /\ lastStore = NoStoreCall
  /\ call = NoCall
  /\ configFile = EmptyDoc
  /\ providers \in FlowCatalogs
  /\ authProfiles = << >>
  /\ slot = [r \in Slots |-> IdleSlot]
  /\ lastDone = NoneDone
  /\ obtained = [t \in Tokens |-> 0]
  /\ exchangeCalls = [t \in Tokens |-> 0]
  /\ started = << >>
  /\ writes = NoWrites
  /\ ChatAtRest

NextFlow ==
  \/ \E params \in FlowStartParams : StartBegin(params)
  \/ \E r \in Slots : StartReturn(r)
  \/ \E req \in FlowCallbackRequests : CallbackBegin(req)
  \/ \E r \in Slots : ExchangeReturn(r)
  \/ \E r \in Slots : SnapshotReturn(r)
  \/ \E r \in Slots : WriteReturn(r)

SpecFlow == InitFlow /\ [][NextFlow]_vars

(***************************************************************************)
(* RPC models.auth.list.                                                   *)
(***************************************************************************)
ListParams == { [extra |-> FALSE], [extra |-> TRUE] }

\* ModelsAuthListParamsSchema: an object without properties
validateModelsAuthListParams(params) == ~params.extra

\* ensureAuthProfileStore(agentDir) (agents/auth-profiles): the profiles
\* kept for the agent directory
ensureAuthProfileStore(store, agentDir) ==
  [id \in { i \in DOMAIN store : store[i].agentDir = agentDir } |-> store[id]]

\* listProfilesForProvider(store, provider) (agents/auth-profiles): the ids
\* of the profiles whose credential is of the provider
listProfilesForProvider(authStore, provider) ==
  { id \in DOMAIN authStore :
      normalizeProviderId(authStore[id].credential.provider) = normalizeProviderId(provider) }

\* lines 112-116: the block is an object with a string apiKey that is not
\* blank
hasApiKey(providerConfig) ==
  LET apiKey == GetField(providerConfig, "apiKey")
  IN  /\ providerConfig.k \in {"rec", "arr"}
      /\ apiKey.k = "str"
      /\ Len(Trim(apiKey.f)) > 0

\* lines 110-131: the entry of one provider; authStore is Null when the
\* store could not be opened
ListEntry(p, config, authStore) ==
  LET providerConfig == GetField(GetField(GetField(config, "models"), "providers"),
                                 PropertyKey(p.id))
      hasOAuthProfile == authStore # Null /\ listProfilesForProvider(authStore, p.id) # {}
  IN  [id |-> p.id, label |-> p.label,
       auth |-> [i \in 1..Len(p.auth) |->
                   [id |-> p.auth[i].id, label |-> p.auth[i].label, kind |-> p.auth[i].kind]],
       connected |-> hasApiKey(providerConfig) \/ hasOAuthProfile]

\* line 132: respond(true, { providers: list }, undefined)
ListOk(list, config, authStore) ==
  [ok |-> TRUE,
   result |-> [providers |-> [i \in 1..Len(list) |-> ListEntry(list[i], config, authStore)]],
   error |-> NoError]

\* String(err) of a throwing ensureAuthProfileStore
ErrStore == <<"Error", ":", " ", "store">>

ListStoreFailure_Propagates(list, config) == ErrorResponse("UNAVAILABLE", ErrStore)

\* lines 105-109: ensureAuthProfileStore throws, authStore stays null
ListStoreFailure(list, config) == ListOk(list, config, Null)

ListDone(path, response) ==
  [kind |-> "list", method |-> "", pathname |-> "", state |-> Undefined,
   had |-> FALSE, got |-> FALSE, path |-> path, handled |-> TRUE, res |-> FreshResponse,
   responses |-> respond(<< >>, response), result |-> NoExchange, upserted |-> 0,
   wrote |-> NoValue]

\* The handler, from its entry to its return: it awaits nothing.
ListProviders(params, opens) ==
  /\ lastDone' =
       IF ~validateModelsAuthListParams(params)
       THEN ListDone("invalid_params",
                     ErrorResponse("INVALID_REQUEST",
                                   <<"invalid models.auth.list params: ", "unexpected property">>))
       ELSE IF opens
       THEN ListDone("listed",
                     ListOk(providers, loadConfig(configFile),
                            ensureAuthProfileStore(authProfiles, AgentDir)))
       ELSE ListDone("listed_without_store",
                     ListStoreFailure(providers, loadConfig(configFile)))
  /\ UNCHANGED <<uiVars, writes, started, call, now, stateMap, nIssued, storeHist, providers,
                 configFile, authProfiles, slot, obtained, exchangeCalls>>

\* a block for provider a with this apiKey
ConfigWithKeyOfA(apiKey) ==
  Rec("models" :> Rec("providers" :>
        Rec("a" :> Rec(("baseUrl" :> Str(<<"u">>)) @@ ("models" :> Arr(<< >>))
                       @@ ("apiKey" :> apiKey)))))

\* configurations on file: no blocks, blocks without a key, a key for a, a
\* blank key, a key that is no string, a key for b next to a block of a
\* that is no object
ListConfigs ==
  { EmptyDoc, ConfigWithB, ConfigWithPartialA,
    ConfigWithKeyOfA(Str(<<" ", " ">>)),
    ConfigWithKeyOfA(JsonNull),
    Rec("models" :> Rec("providers" :>
          Rec(("a" :> Str(<<"k">>))
              @@ ("b" :> Rec("apiKey" :> Str(<<" ", "k">>)))))) }

\* credential stores: empty, a profile of provider a, profiles of a and c,
\* a profile of b kept for another agent directory
ListStores ==
  { << >>,
    "p2" :> [credential |-> [type |-> "oauth", provider |-> <<"a">>], agentDir |-> AgentDir],
    ("p2" :> [credential |-> [type |-> "oauth", provider |-> <<"A">>], agentDir |-> AgentDir])
      @@ ("p3" :> [credential |-> [type |-> "token", provider |-> <<"c">>],
                   agentDir |-> AgentDir]),
    "p4" :> [credential |-> [type |-> "oauth", provider |-> <<"b">>], agentDir |-> <<"e">>] }

InitList ==
  /\ now = 0
  /\ stateMap = << >>
  /\ nIssued = 0
  /\ issuedEntry = << >>
  /\ consumeCount = [s \in StateInputs |-> 0]
  /\ firstFound = {}
  /\ lastStore = NoStoreCall
  /\ call = NoCall
  /\ configFile \in ListConfigs
  /\ providers \in {Catalog, <<ProviderC, ProviderB>>}
  /\ authProfiles \in ListStores
  /\ slot = [r \in Slots |-> IdleSlot]
  /\ lastDone = NoneDone
  /\ obtained = [t \in Tokens |-> 0]
  /\ exchangeCalls = [t \in Tokens |-> 0]
  /\ started = << >>
  /\ writes = NoWrites
  /\ ChatAtRest

NextList == \E params \in ListParams, opens \in BOOLEAN : ListProviders(params, opens)

SpecList == InitList /\ [][NextList]_vars

(***************************************************************************)
(* The three RPC handlers of the gateway side by side: models.auth.list,   *)
(* models.auth.oauthStart and models.auth.apiKeySet.                       *)
(***************************************************************************)
\* params that take models.auth.oauthStart to each of its returns
RpcStartParams ==
  { StartParam(<<"a">>, Undefined, <<"g">>, Undefined, FALSE),
    StartParam(<<"a">>, <<"z">>, <<"g">>, Undefined, FALSE),
    StartParam(<<"a">>, Undefined, Undefined, Undefined, FALSE),
    StartParam(<<"c">>, Undefined, <<"g">>, Undefined, FALSE),
    StartParam(<<"z">>, Undefined, <<"g">>, Undefined, FALSE),
    StartParam(<<"c">>, Undefined, <<"g">>, Undefined, TRUE) }

\* params that take models.auth.apiKeySet to each of its returns
RpcKeyParams ==
  { ApiKeyParam(<<"a">>, Undefined, <<" ", "1", " ">>, FALSE),
    ApiKeyParam(<<"b">>, <<"t">>, <<"2">>, FALSE),
    ApiKeyParam(<<"a">>, <<"z">>, <<"1">>, FALSE),
    ApiKeyParam(<<"z">>, Undefined, <<"1">>, FALSE),
    ApiKeyParam(<<"a">>, Undefined, <<" ", " ">>, FALSE),
    ApiKeyParam(<<"a">>, Undefined, <<"1">>, TRUE) }

NextRpc ==
  \/ \E params \in ListParams, opens \in BOOLEAN : ListProviders(params, opens)
  \/ \E params \in RpcStartParams : StartBegin(params)
  \/ \E r \in Slots : StartReturn(r)
  \/ \E params \in RpcKeyParams : ApiKeySetBegin(params)
  \/ \E r \in Slots : ApiKeyWriteReturn(r)

SpecRpc == InitApiKey /\ [][NextRpc]_vars

(***************************************************************************)
(* The chat controller's calls: sendChatMessage up to and after its await  *)
(* of chat.send, and handleChatEvent.                                      *)
(***************************************************************************)
\* Number of sendChatMessage calls that draw a run identifier.
MaxSends == 2

\* Number of clock ticks while the chat controller is observed.
MaxChatTicks == 1

\* Number of handleChatEvent calls.
MaxEvents == 2

GatewayVars == <<stateMap, nIssued, storeHist, handlerVars, call, started, writes>>

\* the message typed and the number of attachments
SendInputs ==
  { [message |-> <<" ", "h", "i">>, attachments |-> 1],
    [message |-> <<" ">>, attachments |-> 0] }

ChatReturned(fn, payload, value) ==
  [fn |-> fn, payload |-> payload, value |-> value,
   n |-> IF fn = "handleChatEvent" THEN chatRet.n + 1 ELSE chatRet.n]

\* String(err) of a rejected chat.send
ErrSend == <<"Error", ":", " ", "send">>

\* lines 64-132: sendChatMessage from its entry to await client.request(..),
\* or to its early return
SendBegin(input) ==
  LET msg == Trim(input.message)
      hasAttachments == input.attachments > 0
      runId == generateUUID(Len(sends) + 1)
      userMessage == [role |-> "user", text |-> msg, images |-> input.attachments,
                      timestamp |-> DateNow]
  IN  /\ UNCHANGED <<now, GatewayVars>>
      /\ IF ~chat.client \/ ~chat.connected \/ (msg = << >> /\ ~hasAttachments)
         THEN /\ chatRet' = ChatReturned("sendChatMessage", NoValue, Bool(FALSE))
              /\ UNCHANGED <<chat, sends>>
         ELSE /\ Len(sends) < MaxSends
              /\ chat' = WithLog([chat EXCEPT
                                    !.chatMessages = Append(@, userMessage),
                                    !.chatSending = TRUE,
                                    !.lastError = JsonNull,
                                    !.chatRunId = Str(runId),
                                    !.chatStream = Str(<< >>),
                                    !.chatStreamStartedAt = Num(DateNow),
                                    !.llmLogLastAtMs = Num(0),
                                    !.llmFirstTokenSeen = Bool(FALSE)],
                                 <<LogEntry(DateNow, "run.start", "info", "run started", runId),
                                   LogEntry(DateNow, "phase", "info", "thinking", runId)>>)
              /\ sends' = Append(sends, [runId |-> runId, pc |-> "chat.send"])
              /\ chatRet' = chatRet

\* lines 132-157: await client.request("chat.send", ..) settles
SendReturn(i) ==
  /\ sends[i].pc = "chat.send"
  /\ sends' = [sends EXCEPT ![i].pc = "done"]
  /\ UNCHANGED <<now, GatewayVars>>
  /\ \/ /\ chat' = [chat EXCEPT !.chatSending = FALSE]
        /\ chatRet' = ChatReturned("sendChatMessage", NoValue, Bool(TRUE))
     \/ \* the request rejects
        /\ chat' = [chat EXCEPT
                      !.chatRunId = JsonNull,
                      !.chatStream = JsonNull,
                      !.chatStreamStartedAt = JsonNull,
                      !.lastError = Str(ErrSend),
                      !.chatMessages =
                         Append(@, [role |-> "assistant",
                                    text |-> <<"Error: ">> \o ErrSend, images |-> 0,
                                    timestamp |-> DateNow]),
                      !.chatSending = FALSE]
        /\ chatRet' = ChatReturned("sendChatMessage", NoValue, Bool(FALSE))

ChatPayload(runId, sessionKey, state, message, errorMessage) ==
  [runId |-> runId, sessionKey |-> sessionKey, state |-> state, message |-> message,
   errorMessage |-> errorMessage]

\* the events the gateway can deliver: of the runs started here, of a run
\* started elsewhere, without a run identifier, of another session, and a
\* call without payload
ChatPayloads ==
  { NoValue,
    ChatPayload(<<"r">>, <<"other">>, "final", NoValue, Undefined),
    ChatPayload(<<"z">>, SessionKey, "final", NoValue, Undefined),
    ChatPayload(<<"z">>, SessionKey, "error", NoValue, <<"boom">>),
    ChatPayload(<<"r">>, SessionKey, "delta", Str(<<"h">>), Undefined),
    ChatPayload(<<"r">>, SessionKey, "delta", NoValue, Undefined),
    ChatPayload(<< >>, SessionKey, "delta", Str(<<"h", "i">>), Undefined),
    ChatPayload(<< >>, SessionKey, "final", NoValue, Undefined),
    ChatPayload(<<"r">>, SessionKey, "final", NoValue, Undefined),
    ChatPayload(<<"s">>, SessionKey, "final", NoValue, Undefined),
    ChatPayload(<<"r">>, SessionKey, "aborted", NoValue, Undefined),
    ChatPayload(<<"r">>, SessionKey, "error", NoValue, Undefined),
    ChatPayload(<<"r">>, SessionKey, "error", NoValue, <<"boom">>) }

\* handleChatEvent(state, payload)
HandleChatEvent(payload) ==
  /\ chatRet.n < MaxEvents
  /\ LET result == handleChatEvent(chat, payload, DateNow)
     IN  /\ chat' = result.state
         /\ chatRet' = ChatReturned("handleChatEvent", payload, result.value)
  /\ UNCHANGED <<sends, now, GatewayVars>>

InitChat ==
  /\ now = 0
  /\ stateMap = << >>
  /\ nIssued = 0
  /\ issuedEntry = << >>
  /\ consumeCount = [s \in StateInputs |-> 0]
  /\ firstFound = {}
  /\ lastStore = NoStoreCall
  /\ call = NoCall
  /\ configFile = EmptyDoc
  /\ providers = Catalog
  /\ authProfiles = << >>
  /\ slot = [r \in Slots |-> IdleSlot]
  /\ lastDone = NoneDone
  /\ obtained = [t \in Tokens |-> 0]
  /\ exchangeCalls = [t \in Tokens |-> 0]
  /\ started = << >>
  /\ writes = NoWrites
  /\ chat \in {FreshChat(TRUE), FreshChat(FALSE)}
  /\ sends = << >>
  /\ chatRet = NoChatCall

NextChat ==
  \/ now < MaxChatTicks /\ Tick
  \/ \E input \in SendInputs : SendBegin(input)
  \/ \E i \in DOMAIN sends : SendReturn(i)
  \/ \E payload \in ChatPayloads : HandleChatEvent(payload)

SpecChat == InitChat /\ [][NextChat]_vars

(***************************************************************************)
(* The helper functions called directly: mergeConfigPatch, both            *)
(* resolveProviderMatch, pickOAuthMethod and pickApiKeyOrTokenMethod.  A   *)
(* behaviour draws one call, then the function is applied to it.            *)
(***************************************************************************)
\* the values a key or an array element holds: strings, null, arrays
MergeLeaves ==
  { Str(<<"1">>), Str(<<"2">>), JsonNull,
    Arr(<<Str(<<"1">>), Str(<<"2">>)>>),
    Arr(<<Rec("b" :> Str(<<"1">>))>>) }

MergeKeys == {"b", "c"}

\* records over MergeKeys whose values are leaves
MergeFlatRecords ==
  { Rec(f) : f \in UNION { [D -> MergeLeaves] : D \in SUBSET MergeKeys } }

\* records with a key "a" holding a leaf or a record, next to at most one
\* other key
MergeNestedRecords ==
  { Rec("a" :> v) : v \in MergeLeaves \cup MergeFlatRecords }
    \cup { Rec(("a" :> v) @@ ("b" :> w)) :
             v \in { r \in MergeFlatRecords : DOMAIN r.f = MergeKeys },
             w \in { Str(<<"1">>), Rec("c" :> Str(<<"2">>)) } }

MergeBases == MergeLeaves \cup MergeFlatRecords \cup MergeNestedRecords

\* patches: the leaves, the empty record, flat records on one key, and
\* records on "a"
MergePatches ==
  MergeLeaves
    \cup { r \in MergeFlatRecords : DOMAIN r.f # MergeKeys }
    \cup { Rec("a" :> v) :
             v \in MergeLeaves \cup { r \in MergeFlatRecords : DOMAIN r.f # MergeKeys } }

MergeCalls ==
  { [fn |-> "mergeConfigPatch", args |-> <<base, patch>>, done |-> FALSE, result |-> Null] :
      base \in MergeBases, patch \in MergePatches }

\* a provider descriptor, for the matcher: id and aliases
Descriptor(id, aliases) ==
  [id |-> id, label |-> id, aliases |-> aliases, auth |-> << >>, models |-> NoValue]

\* provider lists: an alias of an earlier descriptor is the id of a later
\* one, two ids and two aliases differ by case or blanks only
MatchLists ==
  { << >>,
    Catalog,
    << Descriptor(<<"a">>, << <<"b">>, <<"e">> >>),
       Descriptor(<<"b">>, << <<"C">> >>),
       Descriptor(<<"B">>, << <<"c">>, <<"a">> >>),
       Descriptor(<<" ", "E">>, << >>) >>,
    << Descriptor(<<"A", "i">>, << <<"o">>, <<" ", "I", " ">> >>),
       Descriptor(<<"i">>, << <<"O">> >>) >> }

RawProviders ==
  { << >>, <<" ">>, <<"a">>, <<"A">>, <<" ", "a", " ">>, <<"b">>, <<"B", " ">>,
    <<"c">>, <<"C">>, <<"e">>, <<"E">>, <<"i">>, <<"a", "I">>, <<"o">>, <<"O">>,
    <<"z">> }

MatchCalls ==
  { [fn |-> fn, args |-> <<list, raw>>, done |-> FALSE, result |-> Null] :
      fn \in {"resolveProviderMatch", "resolveProviderMatchCb"},
      list \in MatchLists, raw \in RawProviders }

\* an auth method, for the pickers: id, label and kind
Method(id, label, kind) ==
  [id |-> id, label |-> label, kind |-> kind,
   oauthStart |-> FALSE, oauthCallback |-> FALSE]

\* method lists: kinds interleaved, a label of an earlier method is the id
\* of a later one of the same kind set, ids in either case
PickProviders ==
  { ProviderA, ProviderB, ProviderC,
    [ProviderC EXCEPT !.auth = << >>],
    [ProviderC EXCEPT !.auth =
       << Method(<<"k">>, <<"T">>, "api_key"),
          Method(<<"x">>, <<"y">>, "oauth"),
          Method(<<"Y">>, <<"q">>, "oauth"),
          Method(<<"t">>, <<"x">>, "token"),
          Method(<<"q">>, <<"Q">>, "oauth"),
          Method(<<"n">>, <<"k">>, "api_key") >>] }

RawMethods ==
  { Undefined, << >>, <<" ">>, <<"y">>, <<" ", "Y">>, <<"x">>, <<"X">>, <<"t">>,
    <<"T", " ">>, <<"k">>, <<"K">>, <<"q">>, <<"n">>, <<"c">>, <<"z">> }

PickCalls ==
  { [fn |-> fn, args |-> <<provider, raw>>, done |-> FALSE, result |-> Null] :
      fn \in {"pickOAuthMethod", "pickApiKeyOrTokenMethod"},
      provider \in PickProviders, raw \in RawMethods }

InitFunctions ==
  /\ now = 0
  /\ stateMap = << >>
  /\ nIssued = 0
  /\ issuedEntry = << >>
  /\ consumeCount = [s \in StateInputs |-> 0]
  /\ firstFound = {}
  /\ lastStore = NoStoreCall
  /\ configFile = EmptyDoc
  /\ HandlersAtRest
  /\ \/ call \in MergeCalls
     \/ call \in MatchCalls
     \/ call \in PickCalls

\* the call returns
Returned(result) ==
  /\ ~call.done
  /\ call' = [call EXCEPT !.done = TRUE, !.result = result]
  /\ UNCHANGED <<uiVars, writes, started, now, stateMap, nIssued, storeHist, handlerVars>>

MergeApply ==
  /\ call.fn = "mergeConfigPatch"
  /\ Returned(mergeConfigPatch(call.args[1], call.args[2]))

MatchApply ==
  /\ call.fn = "resolveProviderMatch"
  /\ Returned(resolveProviderMatch(call.args[1], call.args[2]))

MatchCbApply ==
  /\ call.fn = "resolveProviderMatchCb"
  /\ Returned(resolveProviderMatchCb(call.args[1], call.args[2]))

PickOAuthApply ==
  /\ call.fn = "pickOAuthMethod"
  /\ Returned(pickOAuthMethod(call.args[1], call.args[2]))

PickKeyApply ==
  /\ call.fn = "pickApiKeyOrTokenMethod"
  /\ Returned(pickApiKeyOrTokenMethod(call.args[1], call.args[2]))

NextFunctions ==
  \/ MergeApply
  \/ MatchApply
  \/ MatchCbApply
  \/ PickOAuthApply
  \/ PickKeyApply

SpecFunctions == InitFunctions /\ [][NextFunctions]_vars

(***************************************************************************)
(* Store-level properties, checked under SpecStore.                        *)
(***************************************************************************)
AgeAtLastCall(s) == lastStore.at - issuedEntry[s].createdAt

\* C1: consume-once.  A consumeOAuthState(t) of an issued token t that is the
\* first one and comes no later than the TTL returns the entry that create
\* stored for t (all five caller fields, and its creation time); every later
\* consumeOAuthState(t), whatever creates and consumes came in between,
\* returns null.
C1_ConsumeOnce ==
  (lastStore.op = "consume" /\ lastStore.state \in DOMAIN issuedEntry) =>
    /\ (lastStore.nth = 1 /\ AgeAtLastCall(lastStore.state) <= OAUTH_STATE_TTL_MS)
          => lastStore.result = issuedEntry[lastStore.state]
    /\ lastStore.nth = 2 => lastStore.result = Null

\* a second consume of a token whose first consume returned the entry
C1_Witness ==
  /\ lastStore.op = "consume"
  /\ lastStore.nth = 2
  /\ lastStore.state \in firstFound
  /\ AgeAtLastCall(lastStore.state) <= OAUTH_STATE_TTL_MS
  /\ lastStore.result = Null

\* C2: TTL expiry.  consumeOAuthState(t) returns null whenever the entry is
\* older than the TTL, also on the first consume; it returns the entry when
\* the map holds one for t whose age is at most the TTL; and the result for
\* an expired token is the very null returned for a state never issued.
C2_TtlExpiry ==
  lastStore.op = "consume" =>
    /\ (lastStore.state \in DOMAIN issuedEntry
        /\ AgeAtLastCall(lastStore.state) > OAUTH_STATE_TTL_MS)
          => lastStore.result = Null
    /\ (lastStore.had /\ AgeAtLastCall(lastStore.state) <= OAUTH_STATE_TTL_MS)
          => lastStore.result = issuedEntry[lastStore.state]
    /\ lastStore.state \notin DOMAIN issuedEntry => lastStore.result = Null

\* a first consume of an entry still in the map but older than the TTL
C2_Witness ==
  /\ lastStore.op = "consume"
  /\ lastStore.nth = 1
  /\ lastStore.had
  /\ AgeAtLastCall(lastStore.state) > OAUTH_STATE_TTL_MS
  /\ lastStore.result = Null

(***************************************************************************)
(* Properties of the callback handler, checked under Spec.                 *)
(***************************************************************************)
IsCallbackLine(method, pathname) == method = "GET" /\ pathname = "/auth/callback"

InFlightCallback(r) == slot[r].kind = "callback"

\* the Location of an error redirect to the default base
DefaultErrorLocation(message) ==
  <<"/", "?oauth=error&message=">> \o encodeURIComponent(message)

\* C3: no double consume under concurrency.  Of all the callbacks that carry
\* the same valid state (with a code and no error parameter, so that they
\* reach the store), however their steps interleave, at most one gets the
\* entry from the store and calls the provider's oauthCallback; every other
\* one that reaches the store is answered with a redirect whose message is
\* 'Invalid or expired state'.
C3_NoDoubleConsume ==
  /\ \A t \in Tokens : obtained[t] <= 1 /\ exchangeCalls[t] <= 1
  /\ (lastDone.kind = "callback"
      /\ IsCallbackLine(lastDone.method, lastDone.pathname)
      /\ lastDone.state \in Tokens
      /\ lastDone.path \notin {"provider_error", "missing"}
      /\ ~lastDone.got)
        => /\ lastDone.handled
           /\ lastDone.res = [statusCode |-> 302,
                              location |-> DefaultErrorLocation(MsgInvalidState),
                              ended |-> 1]

\* one callback waits on the exchange it started with token t while a second
\* callback with the same t has been turned away
C3_Witness ==
  \E r \in Slots :
    /\ InFlightCallback(r)
    /\ slot[r].state \in Tokens
    /\ obtained[slot[r].state] = 1
    /\ lastDone.kind = "callback"
    /\ lastDone.state = slot[r].state
    /\ lastDone.path = "invalid_state"
    /\ ~lastDone.got

\* C4: a provider error does not burn the token.  A GET /auth/callback with a
\* non-empty error parameter is redirected to the default base with the
\* trimmed error_description, or the trimmed error when there is none, and
\* leaves the state store as it was; so a callback that then brings a state
\* the store holds, no older than the TTL, together with a code, gets the
\* entry.
C4_ProviderErrorKeepsToken ==
  [][\A req \in CallbackRequests :
       (IsCallbackLine(req.method, req.pathname) /\ CallbackBegin(req)) =>
         /\ Truthy(OptTrim(req.error)) =>
              /\ stateMap' = stateMap
              /\ obtained' = obtained
              /\ slot' = slot
              /\ lastDone'.handled
              /\ lastDone'.res =
                   [statusCode |-> 302,
                    location |-> DefaultErrorLocation(
                                   IF Truthy(OptTrim(req.error_description))
                                   THEN Trim(req.error_description)
                                   ELSE Trim(req.error)),
                    ended |-> 1]
         /\ (/\ ~Truthy(OptTrim(req.error))
             /\ Truthy(OptTrim(req.state)) /\ Truthy(OptTrim(req.code))
             /\ Trim(req.state) \in DOMAIN stateMap
             /\ DateNow - stateMap[Trim(req.state)].createdAt <= OAUTH_STATE_TTL_MS) =>
              /\ obtained'[Trim(req.state)] = obtained[Trim(req.state)] + 1
              /\ Trim(req.state) \notin DOMAIN stateMap'
    ]_vars

\* the last answer was a provider-error redirect for a state the store held,
\* and a callback that came after it with that state and a code got the entry
C4_Witness ==
  \E r \in Slots :
    /\ lastDone.kind = "callback"
    /\ lastDone.path = "provider_error"
    /\ lastDone.had
    /\ InFlightCallback(r)
    /\ slot[r].state = lastDone.state
    /\ slot[r].entry # Null

\* the authentication mode of a credential, by its type
ModeOfType(type) ==
  CASE type = "oauth" -> "oauth"
    [] type = "token" -> "token"
    [] OTHER -> "api_key"

\* the mode recorded for a profile in a configuration document
RecordedMode(doc, profileId) == doc.f["auth"].f["profiles"].f[profileId].f["mode"].f

EndsWithSuccessMarker(location) ==
  /\ IsDefined(location)
  /\ location[Len(location)] = "?oauth=success"

\* the invocations whose state was valid, whose provider and method resolved,
\* whose exchange returned, whose snapshot was valid and whose patched
\* document passed validation: those that called writeConfigFile
ReachedWrite == lastDone.kind = "callback" /\ lastDone.path \in {"written", "write_failed"}

\* the request has been answered with the success redirect, every profile of
\* the exchange has been written, and the configuration on disk is the
\* document built from the patch and the profile references
HappyOutcome ==
  /\ lastDone.upserted = Len(lastDone.result.profiles)
  /\ \A i \in 1..Len(lastDone.result.profiles) :
       lastDone.result.profiles[i].profileId \in DOMAIN authProfiles
  /\ lastDone.wrote # NoValue
  /\ configFile = lastDone.wrote
  /\ \A i \in 1..Len(lastDone.result.profiles) :
       RecordedMode(lastDone.wrote, lastDone.result.profiles[i].profileId)
         = <<ModeOfType(lastDone.result.profiles[i].credential.type)>>
  /\ \A key \in DOMAIN lastDone.result.configPatch.f \ {"legacy"} :
       key \in DOMAIN lastDone.wrote.f
  /\ lastDone.handled
  /\ lastDone.res.statusCode = 302
  /\ lastDone.res.ended = 1
  /\ EndsWithSuccessMarker(lastDone.res.location)

HasErrorMarker(location) ==
  /\ IsDefined(location)
  /\ \E i \in 1..(Len(location) - 1) : location[i] = "?oauth=error&message="

MatchesNoProvider(list, id) ==
  \A i \in 1..Len(list) :
    /\ ToLowerCase(Trim(list[i].id)) # ToLowerCase(Trim(id))
    /\ \A k \in 1..Len(list[i].aliases) :
         ToLowerCase(Trim(list[i].aliases[k])) # ToLowerCase(Trim(id))

\* the handler responded once, with this error code, and left the state
\* store and the waiting invocations alone
RefusedWith(code) ==
  /\ lastDone'.kind = "start"
  /\ Len(lastDone'.responses) = 1
  /\ ~lastDone'.responses[1].ok
  /\ lastDone'.responses[1].error.code = code
  /\ UNCHANGED <<stateMap, nIssued, slot>>

\* C8: unknown provider.  start-oauth with a providerId that matches no
\* registered provider, by id or alias, responds INVALID_REQUEST and creates
\* no state record.
C8_UnknownProvider ==
  [][\A params \in StartParams :
       (/\ IsDefined(params.providerId)
        /\ MatchesNoProvider(providers, params.providerId)
        /\ StartBegin(params))
         => RefusedWith("INVALID_REQUEST")
    ]_vars

\* a start for an unknown provider was refused while the store holds the
\* state of another flow
C8_Witness ==
  /\ lastDone.kind = "start"
  /\ lastDone.path = "unknown_provider"
  /\ lastDone.responses[1].error.code = "INVALID_REQUEST"
  /\ DOMAIN stateMap # {}

RedirectUriMissing(params) ==
  \/ ~IsDefined(params.redirectUri)
  \/ Trim(params.redirectUri) = << >>

\* C9 as stated: a missing redirectUri is refused with INVALID_REQUEST for
\* every provider and method.
C9_AsStated ==
  [][\A params \in StartParams :
       (RedirectUriMissing(params) /\ StartBegin(params))
         => RefusedWith("INVALID_REQUEST")
    ]_vars

\* C9: redirectUri is mandatory.  start-oauth without a redirectUri (absent,
\* empty or blank) is refused for every provider and method, creates no state
\* record and does not call the start capability; the code is
\* INVALID_REQUEST, except UNAVAILABLE when the params pass the schema and
\* resolve to an oauth method that has no start capability.
C9_RedirectUriMandatory ==
  [][\A params \in StartParams :
       (RedirectUriMissing(params) /\ StartBegin(params)) =>
         LET valid == validateModelsAuthOAuthStartParams(params)
             provider == IF valid THEN resolveProviderMatch(providers, params.providerId)
                         ELSE Null
             method == IF provider = Null THEN Null
                       ELSE pickOAuthMethod(provider, params.methodId)
         IN  IF method # Null /\ ~method.oauthStart
             THEN RefusedWith("UNAVAILABLE")
             ELSE RefusedWith("INVALID_REQUEST")
    ]_vars

\* a start that resolved to a method with the start capability was refused
\* for its missing redirectUri
C9_Witness ==
  /\ lastDone.kind = "start"
  /\ lastDone.path = "no_redirect"
  /\ lastDone.responses[1].error.code = "INVALID_REQUEST"
  /\ lastDone.responses[1].error.message[1] = "redirectUri"

\* the oauth methods of the provider that the request's methodId selects:
\* all of them when it is absent or blank, else those whose id or label
\* equals it without regard to case
OAuthCandidates(provider, methodId) ==
  { i \in 1..Len(provider.auth) :
      /\ provider.auth[i].kind = "oauth"
      /\ \/ ~IsDefined(methodId)
         \/ Trim(methodId) = << >>
         \/ ToLowerCase(provider.auth[i].id) = ToLowerCase(Trim(methodId))
         \/ ToLowerCase(provider.auth[i].label) = ToLowerCase(Trim(methodId)) }

\* C10: capability checks.  For a request naming a registered provider,
\* start-oauth responds INVALID_REQUEST when the provider has no oauth method
\* matching the request, and UNAVAILABLE when the handler has matched an oauth
\* method (which it does for params that pass the schema) and that method has
\* no start capability; in both cases no state record is created.
C10_CapabilityChecks ==
  [][\A params \in StartParams :
       (/\ IsDefined(params.providerId)
        /\ ~MatchesNoProvider(providers, params.providerId)
        /\ StartBegin(params)) =>
         LET provider == resolveProviderMatch(providers, params.providerId)
             candidates == OAuthCandidates(provider, params.methodId)
         IN  /\ candidates = {} => RefusedWith("INVALID_REQUEST")
             /\ (/\ validateModelsAuthOAuthStartParams(params)
                 /\ candidates # {}
                 /\ \A i \in candidates : ~provider.auth[i].oauthStart)
                   => RefusedWith("UNAVAILABLE")
    ]_vars

\* a start for a provider whose only oauth method cannot start a flow was
\* refused as unavailable
C10_Witness ==
  /\ lastDone.kind = "start"
  /\ lastDone.path = "no_start"
  /\ lastDone.responses[1].error.code = "UNAVAILABLE"

\* the id of the first oauth method of the provider that the request's
\* methodId selects: by id first, by label only when no id matches
SelectedOAuthMethodId(provider, methodId) ==
  LET byId == { i \in OAuthCandidates(provider, methodId) :
                  \/ ~IsDefined(methodId)
                  \/ Trim(methodId) = << >>
                  \/ ToLowerCase(provider.auth[i].id) = ToLowerCase(Trim(methodId)) }
      pool == IF byId # {} THEN byId ELSE OAuthCandidates(provider, methodId)
  IN  provider.auth[CHOOSE i \in pool : \A j \in pool : i <= j].id

\* C11: a successful start.  The step of start-oauth that calls the start
\* capability has added exactly one record to the state store; the record
\* holds the id of the resolved provider, the id of the resolved method, the
\* agent and workspace directories and the trimmed success-redirect base (no
\* base when it is absent or blank); its token is the state handed to the
\* capability.  When the capability returns, the handler responds once, ok,
\* with the url the capability produced and that same token, and the store
\* is as the call left it.
C11_SuccessfulStart ==
  [][/\ \A params \in StartParams :
          (nIssued' # nIssued /\ StartBegin(params)) =>
            LET provider == resolveProviderMatch(providers, params.providerId)
                token == Token(nIssued')
            IN  /\ DOMAIN stateMap' \ DOMAIN stateMap = {token}
                /\ stateMap'[token].providerId = provider.id
                /\ stateMap'[token].methodId = SelectedOAuthMethodId(provider, params.methodId)
                /\ stateMap'[token].agentDir = AgentDir
                /\ stateMap'[token].workspaceDir = WorkspaceDir
                /\ stateMap'[token].successRedirectBase =
                     (IF IsDefined(params.successRedirectBase)
                         /\ Trim(params.successRedirectBase) # << >>
                      THEN Trim(params.successRedirectBase) ELSE Undefined)
                /\ stateMap'[token].createdAt = DateNow
                /\ \E r \in Slots : /\ slot[r].kind = "idle"
                                    /\ slot'[r].kind = "start"
                                    /\ slot'[r].state = token
     /\ \A r \in Slots :
          (slot[r].kind = "start" /\ StartReturn(r) /\ lastDone'.path = "started") =>
            /\ Len(lastDone'.responses) = 1
            /\ lastDone'.responses[1].ok
            /\ lastDone'.responses[1].result.state = slot[r].state
            /\ lastDone'.responses[1].result.url \in AuthorizationUrls
            /\ stateMap' = stateMap
    ]_vars

\* a start by alias with a padded base has succeeded: the caller holds the
\* token of the record, which names the provider by its id and the base
\* trimmed
C11_Witness ==
  /\ lastDone.kind = "start"
  /\ lastDone.path = "started"
  /\ lastDone.responses[1].ok
  /\ lastDone.responses[1].result.state \in DOMAIN stateMap
  /\ stateMap[lastDone.responses[1].result.state].providerId = <<"a">>
  /\ stateMap[lastDone.responses[1].result.state].methodId = <<"y">>
  /\ stateMap[lastDone.responses[1].result.state].successRedirectBase = <<"u", "/">>

(***************************************************************************)
(* Properties of models.auth.apiKeySet, checked under SpecApiKey.          *)
(***************************************************************************)
\* the handler responded once, with this error code, wrote nothing and left
\* no invocation behind that could write
KeyRefusedWith(code) ==
  /\ lastDone'.kind = "apiKey"
  /\ Len(lastDone'.responses) = 1
  /\ ~lastDone'.responses[1].ok
  /\ lastDone'.responses[1].error.code = code
  /\ UNCHANGED <<configFile, slot>>

\* C12: empty secret.  set-api-key with an apiKey that is empty once
\* trimmed responds INVALID_REQUEST and writes no configuration, whichever
\* provider and method the request names.
C12_EmptySecret ==
  [][\A params \in ApiKeyParams :
       (/\ IsDefined(params.apiKey)
        /\ Trim(params.apiKey) = << >>
        /\ ApiKeySetBegin(params))
         => KeyRefusedWith("INVALID_REQUEST")
    ]_vars

\* a blank key for a provider that could take one was refused, with a
\* configuration on file
C12_Witness ==
  /\ lastDone.kind = "apiKey"
  /\ lastDone.path = "empty_key"
  /\ lastDone.responses[1].error.code = "INVALID_REQUEST"
  /\ configFile # EmptyDoc

\* the block of the configuration for this provider id, if any
ConfiguredBlock(config, id) ==
  IF /\ "models" \in DOMAIN config.f
     /\ config.f["models"].k = "rec"
     /\ "providers" \in DOMAIN config.f["models"].f
     /\ config.f["models"].f["providers"].k = "rec"
     /\ id[1] \in DOMAIN config.f["models"].f["providers"].f
  THEN config.f["models"].f["providers"].f[id[1]]
  ELSE NoValue

\* the api_key and token methods of the provider that the request's methodId
\* selects: all of them when it is absent or blank, else those whose id or
\* label equals it without regard to case
KeyCandidates(provider, methodId) ==
  { i \in 1..Len(provider.auth) :
      /\ provider.auth[i].kind \in {"api_key", "token"}
      /\ \/ ~IsDefined(methodId)
         \/ Trim(methodId) = << >>
         \/ ToLowerCase(provider.auth[i].id) = ToLowerCase(Trim(methodId))
         \/ ToLowerCase(provider.auth[i].label) = ToLowerCase(Trim(methodId)) }

\* the request passes the schema, brings a secret, and names a registered
\* provider and one of its api_key or token methods
KeyRequestResolves(params) ==
  /\ validateModelsAuthApiKeySetParams(params)
  /\ Trim(params.apiKey) # << >>
  /\ ~MatchesNoProvider(providers, params.providerId)
  /\ KeyCandidates(resolveProviderMatch(providers, params.providerId), params.methodId) # {}

\* C13: nothing to attach the secret to.  A set-api-key request that resolves
\* to a provider with no block in the configuration and no default block from
\* its plugin responds UNAVAILABLE and writes no configuration.
C13_NoTemplate ==
  [][\A params \in ApiKeyParams :
       (/\ KeyRequestResolves(params)
        /\ LET provider == resolveProviderMatch(providers, params.providerId)
           IN  /\ ConfiguredBlock(configFile, provider.id) = NoValue
               /\ provider.models = NoValue
        /\ ApiKeySetBegin(params))
         => KeyRefusedWith("UNAVAILABLE")
    ]_vars

\* a key for provider b, which has no default block, was refused while the
\* configuration has no block for b
C13_Witness ==
  /\ lastDone.kind = "apiKey"
  /\ lastDone.path = "no_default"
  /\ lastDone.responses[1].error.code = "UNAVAILABLE"
  /\ lastDone.responses[1].error.message[3] = "b"
  /\ ConfiguredBlock(configFile, <<"b">>) = NoValue

\* C14: requests that do not resolve.  set-api-key responds INVALID_REQUEST
\* and writes no configuration when the params fail the schema, when the
\* providerId matches no provider, and when the provider has no api_key or
\* token method matching the request.
C14_Unresolved ==
  [][\A params \in ApiKeyParams :
       (/\ \/ ~validateModelsAuthApiKeySetParams(params)
           \/ MatchesNoProvider(providers, params.providerId)
           \/ KeyCandidates(resolveProviderMatch(providers, params.providerId),
                            params.methodId) = {}
        /\ ApiKeySetBegin(params))
         => KeyRefusedWith("INVALID_REQUEST")
    ]_vars

\* a key for a provider that only signs in with oauth was refused
C14_Witness ==
  /\ lastDone.kind = "apiKey"
  /\ lastDone.path = "no_method"
  /\ lastDone.responses[1].error.code = "INVALID_REQUEST"

\* the written document is the loaded one but for models.providers[id], which
\* is the block overlaid with the secret and the mode
IsKeyUpdate(loaded, written, id, block, secret, mode) ==
  LET key == id[1]
      oldModels == IF "models" \in DOMAIN loaded.f THEN loaded.f["models"].f ELSE << >>
      oldProviders == IF "providers" \in DOMAIN oldModels
                      THEN oldModels["providers"].f ELSE << >>
      newModels == written.f["models"].f
      newProviders == newModels["providers"].f
      newBlock == newProviders[key].f
  IN  /\ written.k = "rec"
      /\ DOMAIN written.f = DOMAIN loaded.f \cup {"models"}
      /\ \A name \in DOMAIN loaded.f \ {"models"} : written.f[name] = loaded.f[name]
      /\ written.f["models"].k = "rec"
      /\ DOMAIN newModels = DOMAIN oldModels \cup {"providers"}
      /\ \A name \in DOMAIN oldModels \ {"providers"} : newModels[name] = oldModels[name]
      /\ newModels["providers"].k = "rec"
      /\ DOMAIN newProviders = DOMAIN oldProviders \cup {key}
      /\ \A name \in DOMAIN oldProviders \ {key} : newProviders[name] = oldProviders[name]
      /\ newProviders[key].k = "rec"
      /\ DOMAIN newBlock = DOMAIN block.f \cup {"apiKey", "auth"}
      /\ \A name \in DOMAIN block.f \ {"apiKey", "auth"} : newBlock[name] = block.f[name]
      /\ newBlock["apiKey"] = Str(secret)
      /\ newBlock["auth"] = Str(mode)

\* C15: a successful set-api-key.  The handler calls writeConfigFile once,
\* with the loaded configuration in which models.providers[provider.id] is
\* the existing block, or else the plugin's default block, overlaid with
\* apiKey = the trimmed secret and auth = 'token' for a token method and
\* 'api-key' for an api_key method, every other block and key as loaded; when
\* the write returns, the file holds that document, the handler responds
\* { ok: true } once and is done.
C15_KeyWritten ==
  [][/\ \A params \in ApiKeyParams :
          (slot' # slot /\ ApiKeySetBegin(params)) =>
            LET provider == resolveProviderMatch(providers, params.providerId)
                method == pickApiKeyOrTokenMethod(provider, params.methodId)
                existing == ConfiguredBlock(configFile, provider.id)
            IN  \E r \in Slots :
                  /\ slot[r].kind = "idle"
                  /\ slot'[r].kind = "apiKey"
                  /\ \A q \in Slots \ {r} : slot'[q] = slot[q]
                  /\ configFile' = configFile
                  /\ IsKeyUpdate(configFile, slot'[r].toWrite, provider.id,
                                 IF existing # NoValue THEN existing ELSE provider.models,
                                 Trim(params.apiKey),
                                 IF method.kind = "token" THEN <<"token">>
                                 ELSE <<"api-key">>)
     /\ \A r \in Slots :
          (slot[r].kind = "apiKey" /\ ApiKeyWriteReturn(r) /\ lastDone'.path = "written") =>
            /\ configFile' = slot[r].toWrite
            /\ lastDone'.responses = <<[ok |-> TRUE, result |-> [ok |-> TRUE],
                                        error |-> NoError]>>
            /\ slot'[r] = IdleSlot
    ]_vars

\* a token for provider b has been written into a configuration that had a
\* block for b: the block carries the key and the token mode, the block of
\* the other provider and the other keys are as they were
C15_Witness ==
  /\ lastDone.kind = "apiKey"
  /\ lastDone.path = "written"
  /\ configFile = lastDone.wrote
  /\ ConfiguredBlock(configFile, <<"b">>) # NoValue
  /\ ConfiguredBlock(configFile, <<"b">>).f["auth"] = Str(<<"token">>)
  /\ ConfiguredBlock(configFile, <<"b">>).f["apiKey"] = Str(<<"2">>)
  /\ ConfiguredBlock(configFile, <<"o">>) = ConfiguredBlock(ConfigWithB, <<"o">>)
  /\ configFile.f["gateway"] = Str(<<"g">>)

\* C16: a failed write.  When writeConfigFile rejects, the handler responds
\* once, with an UNAVAILABLE error and not with ok, the file is as it was,
\* and the invocation is over: it does not write again.
C16_WriteFailure ==
  [][\A r \in Slots :
       (lastDone'.path = "write_failed" /\ slot[r].kind = "apiKey" /\ ApiKeyWriteReturn(r)) =>
         /\ Len(lastDone'.responses) = 1
         /\ ~lastDone'.responses[1].ok
         /\ lastDone'.responses[1].error.code = "UNAVAILABLE"
         /\ configFile' = configFile
         /\ slot'[r] = IdleSlot
    ]_vars

\* the write of a key failed and the caller was told so
C16_Witness ==
  /\ lastDone.kind = "apiKey"
  /\ lastDone.path = "write_failed"
  /\ ~lastDone.responses[1].ok
  /\ lastDone.responses[1].error.code = "UNAVAILABLE"
  /\ lastDone.responses[1].error.message = ErrWrite

(***************************************************************************)
(* Properties of the helper functions, checked under SpecFunctions.        *)
(***************************************************************************)
\* C17: the empty patch.  For every plain-record base,
\* mergeConfigPatch(base, {}) equals base.
C17_EmptyPatchIdentity ==
  (/\ call.fn = "mergeConfigPatch"
   /\ call.done
   /\ call.args[1].k = "rec"
   /\ call.args[2] = Rec(<< >>))
    => call.result = call.args[1]

\* the empty patch was merged into a record that holds a record, an array
\* and a string
C17_Witness ==
  /\ call.fn = "mergeConfigPatch"
  /\ call.done
  /\ call.args[2] = Rec(<< >>)
  /\ call.args[1] = Rec(("a" :> Rec(("b" :> Arr(<<Str(<<"1">>), Str(<<"2">>)>>))
                                    @@ ("c" :> Str(<<"2">>))))
                        @@ ("b" :> Str(<<"1">>)))
  /\ call.result = call.args[1]

\* the reference deep merge, as a relation between base, patch and result
RECURSIVE IsDeepMerge(_, _, _)
IsDeepMerge(base, patch, result) ==
  IF base.k # "rec" \/ patch.k # "rec" THEN result = patch
  ELSE /\ result.k = "rec"
       /\ DOMAIN result.f = DOMAIN base.f \cup DOMAIN patch.f
       /\ \A key \in DOMAIN result.f :
            IF key \notin DOMAIN patch.f THEN result.f[key] = base.f[key]
            ELSE IF key \in DOMAIN base.f
                    /\ base.f[key].k = "rec" /\ patch.f[key].k = "rec"
                 THEN IsDeepMerge(base.f[key], patch.f[key], result.f[key])
                 ELSE result.f[key] = patch.f[key]

\* C18: mergeConfigPatch is the reference deep merge.  If base or patch is
\* not a plain record the result is the patch; otherwise the keys of the
\* result are those of base and patch together, a key of base alone keeps its
\* value, a key whose values in base and patch are both plain records holds
\* their merge, and any other key of patch holds the patch's value, arrays
\* included.
C18_DeepMerge ==
  (call.fn = "mergeConfigPatch" /\ call.done)
    => IsDeepMerge(call.args[1], call.args[2], call.result)

\* { a: { b: [..], c: "2" }, b: "1" } merged with { a: { b: "2" } } gave
\* { a: { b: "2", c: "2" }, b: "1" }
C18_Witness ==
  /\ call.fn = "mergeConfigPatch"
  /\ call.done
  /\ call.args[1] = Rec(("a" :> Rec(("b" :> Arr(<<Str(<<"1">>), Str(<<"2">>)>>))
                                    @@ ("c" :> Str(<<"2">>))))
                        @@ ("b" :> Str(<<"1">>)))
  /\ call.args[2] = Rec("a" :> Rec("b" :> Str(<<"2">>)))
  /\ call.result = Rec(("a" :> Rec(("b" :> Str(<<"2">>)) @@ ("c" :> Str(<<"2">>))))
                       @@ ("b" :> Str(<<"1">>)))

\* two identifiers are the same but for case and surrounding blanks
SameProviderId(x, y) == ToLowerCase(Trim(x)) = ToLowerCase(Trim(y))

\* the descriptors whose primary id is the raw identifier
IdMatches(list, raw) ==
  { i \in 1..Len(list) : SameProviderId(list[i].id, raw) }

\* the descriptors with an alias that is the raw identifier
AliasMatches(list, raw) ==
  { i \in 1..Len(list) :
      \E k \in 1..Len(list[i].aliases) : SameProviderId(list[i].aliases[k], raw) }

\* the value is the earliest of these descriptors of the list
IsEarliestOf(value, list, hits) ==
  \E i \in hits : value = list[i] /\ \A j \in hits : i <= j

\* C19: provider matching, in the RPC handlers and in the callback handler.
\* Identifiers are compared without regard to case and surrounding blanks.
\* When some descriptor of the list has the raw identifier as its primary id,
\* the earliest such descriptor is returned, whatever the aliases are;
\* otherwise, when some descriptor has it as an alias, the earliest such
\* descriptor is returned; otherwise the result is not-found.
C19_ProviderMatching ==
  (call.fn \in {"resolveProviderMatch", "resolveProviderMatchCb"} /\ call.done) =>
    LET list == call.args[1]
        raw == call.args[2]
    IN  IF IdMatches(list, raw) # {}
        THEN IsEarliestOf(call.result, list, IdMatches(list, raw))
        ELSE IF AliasMatches(list, raw) # {}
        THEN IsEarliestOf(call.result, list, AliasMatches(list, raw))
        ELSE call.result = Null

\* "B " was looked up in a list whose first descriptor has the alias b, whose
\* second has the id b and whose third has the id B: the second was returned
C19_Witness ==
  /\ call.fn = "resolveProviderMatchCb"
  /\ call.done
  /\ call.args[2] = <<"B", " ">>
  /\ Len(call.args[1]) = 4
  /\ 1 \in AliasMatches(call.args[1], call.args[2])
  /\ IdMatches(call.args[1], call.args[2]) = {2, 3}
  /\ call.result = call.args[1][2]

\* the kinds a picker selects from
KindsOf(fn) == IF fn = "pickOAuthMethod" THEN {"oauth"} ELSE {"api_key", "token"}

\* no method identifier was given
IsBlank(raw) == ~IsDefined(raw) \/ Trim(raw) = << >>

\* C20: method picking, by pickOAuthMethod and pickApiKeyOrTokenMethod.
\* Only a method of the picker's kind set is ever returned.  With no method
\* identifier (absent or blank) the result is the first method of that kind
\* in list order, not-found when there is none.  Otherwise, if some method
\* of that kind has the identifier as its id (case and surrounding blanks of
\* the request aside) such a method is returned, also when an earlier method
\* matches by label; if none has but some method of that kind has it as its
\* label, compared without regard to case, such a method is returned; and
\* the result is not-found when neither is the case.
C20_MethodPicking ==
  (call.fn \in {"pickOAuthMethod", "pickApiKeyOrTokenMethod"} /\ call.done) =>
    LET auth == call.args[1].auth
        raw == call.args[2]
        ofKind == { i \in 1..Len(auth) : auth[i].kind \in KindsOf(call.fn) }
        byId == { i \in ofKind : ToLowerCase(auth[i].id) = ToLowerCase(Trim(raw)) }
        byLabel == { i \in ofKind : ToLowerCase(auth[i].label) = ToLowerCase(Trim(raw)) }
    IN  /\ call.result # Null => call.result.kind \in KindsOf(call.fn)
        /\ IF IsBlank(raw)
           THEN IF ofKind = {} THEN call.result = Null
                ELSE IsEarliestOf(call.result, auth, ofKind)
           ELSE IF byId # {} THEN \E i \in byId : call.result = auth[i]
           ELSE IF byLabel # {} THEN \E i \in byLabel : call.result = auth[i]
           ELSE call.result = Null

\* "t" was asked of a provider whose first key method has the label T and
\* whose token method, further down the list, has the id t: the token method
\* was returned
C20_Witness ==
  /\ call.fn = "pickApiKeyOrTokenMethod"
  /\ call.done
  /\ call.args[2] = <<"t">>
  /\ Len(call.args[1].auth) = 6
  /\ call.args[1].auth[1].label = <<"T">>
  /\ call.args[1].auth[1].kind = "api_key"
  /\ call.result = call.args[1].auth[4]
  /\ call.result.id = <<"t">>

(***************************************************************************)
(* Further properties of the state store, checked under SpecStore.         *)
(***************************************************************************)
\* C22: consumption deletes unconditionally.  After consumeOAuthState(t)
\* the map holds no entry for t - whether the call returned the entry, found
\* it expired or found nothing - and holds every entry it held under another
\* token, unchanged, and no entry more.
C22_ConsumeDeletes ==
  [][\A state \in StateInputs :
       StoreConsume(state) =>
         /\ state \notin DOMAIN stateMap'
         /\ DOMAIN stateMap' = DOMAIN stateMap \ {state}
         /\ \A s \in DOMAIN stateMap' : stateMap'[s] = stateMap[s]
    ]_vars

\* an entry found expired has been consumed - null returned, entry gone -
\* while the entry of another token is still in the map
C22_Witness ==
  /\ lastStore.op = "consume"
  /\ lastStore.had
  /\ lastStore.result = Null
  /\ lastStore.state \notin DOMAIN stateMap
  /\ \E s \in DOMAIN stateMap : s # lastStore.state /\ stateMap[s] = issuedEntry[s]

\* C23: pruning on create.  Right after createOAuthState the map holds no
\* entry older than the TTL, holds every entry that was in it and not older
\* than the TTL, unchanged, and holds exactly one entry more, under the
\* token returned.  An entry leaves the map in no other step than a create
\* and a consume of its own token.
C23_PruneOnCreate ==
  [][/\ \A entry \in EntryInputs :
          StoreCreate(entry) =>
            /\ \A s \in DOMAIN stateMap' :
                 DateNow - stateMap'[s].createdAt <= OAUTH_STATE_TTL_MS
            /\ \A s \in DOMAIN stateMap :
                 DateNow - stateMap[s].createdAt <= OAUTH_STATE_TTL_MS
                   => s \in DOMAIN stateMap' /\ stateMap'[s] = stateMap[s]
            /\ DOMAIN stateMap' \ DOMAIN stateMap = {lastStore'.state}
            /\ stateMap'[lastStore'.state] = WithCreatedAt(entry, DateNow)
     /\ (DOMAIN stateMap \ DOMAIN stateMap' # {}) =>
          \/ \E entry \in EntryInputs : StoreCreate(entry)
          \/ \E state \in DOMAIN stateMap :
               DOMAIN stateMap \ DOMAIN stateMap' = {state} /\ StoreConsume(state)
    ]_vars

\* a create has pruned the entry of a token that was never consumed
C23_Witness ==
  /\ lastStore.op = "create"
  /\ lastStore.state \in DOMAIN stateMap
  /\ \E s \in DOMAIN issuedEntry :
       /\ s \notin DOMAIN stateMap
       /\ consumeCount[s] = 0
       /\ lastStore.at - issuedEntry[s].createdAt > OAUTH_STATE_TTL_MS

(***************************************************************************)
(* Further properties of the callback handler, checked under Spec.         *)
(***************************************************************************)
\* the Location of an error redirect: to the base when there is one, to the
\* root path otherwise
ErrorLocation(message, base) ==
  IF IsDefined(base) /\ base # << >>
  THEN StripTrailingSlashes(base) \o <<"?oauth=error&message=">> \o encodeURIComponent(message)
  ELSE DefaultErrorLocation(message)

\* the invocation that returned in this step answered with this redirect
AnsweredWith(location) ==
  /\ lastDone'.kind = "callback"
  /\ lastDone'.handled
  /\ lastDone'.res.statusCode = 302
  /\ lastDone'.res.ended = 1
  /\ lastDone'.res.location = location

\* C24: a missing parameter.  A GET /auth/callback without an error
\* parameter whose state or code is absent, or blank once trimmed, is
\* redirected to /?oauth=error with 'Missing state or code'; the state store
\* is left as it is - an entry under the state of the request is still in
\* the map, so it was not consumed - and nothing is left waiting.
C24_MissingParameter ==
  [][\A req \in CallbackRequests :
       (/\ IsCallbackLine(req.method, req.pathname)
        /\ ~(IsDefined(req.error) /\ Trim(req.error) # << >>)
        /\ \/ ~IsDefined(req.state) \/ Trim(req.state) = << >>
           \/ ~IsDefined(req.code) \/ Trim(req.code) = << >>
        /\ CallbackBegin(req))
         => /\ AnsweredWith(DefaultErrorLocation(MsgMissing))
            /\ UNCHANGED <<stateMap, obtained, exchangeCalls, slot, authProfiles, configFile>>
    ]_vars

\* a token came without a code: the request was turned away and the entry is
\* still in the store, and would be returned by a consume now
C24_Witness ==
  /\ lastDone.kind = "callback"
  /\ lastDone.path = "missing"
  /\ lastDone.state \in DOMAIN stateMap
  /\ consumeResult(stateMap, lastDone.state, DateNow) = stateMap[lastDone.state]
  /\ lastDone.res.location = DefaultErrorLocation(MsgMissing)

\* the map has no entry for the state that is at most TTL old
NoLiveEntry(state) ==
  \/ state \notin DOMAIN stateMap
  \/ DateNow - stateMap[state].createdAt > OAUTH_STATE_TTL_MS

\* C25: an invalid state.  A callback with a code whose state is unknown,
\* already consumed or expired is redirected to /?oauth=error with 'Invalid
\* or expired state' - at the root path also when the expired entry had a
\* successRedirectBase - and starts no exchange, writes no profile and no
\* configuration.
C25_InvalidState ==
  [][\A req \in CallbackRequests :
       (/\ IsCallbackLine(req.method, req.pathname)
        /\ ~(IsDefined(req.error) /\ Trim(req.error) # << >>)
        /\ IsDefined(req.state) /\ Trim(req.state) # << >>
        /\ IsDefined(req.code) /\ Trim(req.code) # << >>
        /\ NoLiveEntry(Trim(req.state))
        /\ CallbackBegin(req))
         => /\ AnsweredWith(DefaultErrorLocation(MsgInvalidState))
            /\ UNCHANGED <<obtained, exchangeCalls, slot, authProfiles, configFile>>
    ]_vars

\* a callback came with the token of an entry older than the TTL and was
\* sent to the root path
C25_Witness ==
  /\ lastDone.kind = "callback"
  /\ lastDone.path = "invalid_state"
  /\ lastDone.had
  /\ ~lastDone.got
  /\ lastDone.res.location = DefaultErrorLocation(MsgInvalidState)
  /\ obtained[lastDone.state] = 0
  /\ exchangeCalls[lastDone.state] = 0

\* C27: a failed exchange.  When method.oauthCallback rejects, the callback
\* is redirected to the successRedirectBase of the state, or to the root path
\* when the state has none, with oauth=error and the text of the error;
\* no profile and no configuration is written and the invocation is over.
C27_ExchangeThrows ==
  [][\A r \in Slots :
       (/\ lastDone'.path = "exchange_failed"
        /\ slot[r].kind = "callback" /\ slot[r].pc = "oauthCallback"
        /\ slot'[r].pc # "readSnapshot"
        /\ ExchangeReturn(r))
         => /\ AnsweredWith(ErrorLocation(ErrExchange, slot[r].entry.successRedirectBase))
            /\ UNCHANGED <<authProfiles, configFile>>
            /\ slot'[r] = IdleSlot
    ]_vars

\* the exchange of a flow started with a successRedirectBase failed: the
\* browser was sent to that base and the profile store is empty
C27_Witness ==
  /\ lastDone.kind = "callback"
  /\ lastDone.path = "exchange_failed"
  /\ lastDone.res.location = <<"u", "?oauth=error&message=">> \o encodeURIComponent(ErrExchange)
  /\ authProfiles = << >>

\* the first n profiles of the result are in the store, under this agent
\* directory
ProfilesStored(store, result, n, agentDir) ==
  \A i \in 1..n :
    /\ result.profiles[i].profileId \in DOMAIN store
    /\ store[result.profiles[i].profileId].credential = result.profiles[i].credential
    /\ store[result.profiles[i].profileId].agentDir = agentDir

\* C28: no rollback of profile writes.  When the handler goes on to read the
\* configuration snapshot, every profile of the exchange result is in the
\* credential store under the agent directory of the state.  No step takes a
\* profile out of the store.  When a later step throws - a later profile
\* write, the snapshot read, the migration, the validation, the
\* configuration write - the profiles written before are still in the store
\* and the browser is redirected with oauth=error and the text of the error.
C28_NoRollback ==
  [][/\ \A id \in DOMAIN authProfiles : id \in DOMAIN authProfiles'
     /\ \A r \in Slots :
          (slot[r].pc = "oauthCallback" /\ slot'[r].pc = "readSnapshot") =>
            ProfilesStored(authProfiles', slot'[r].result, Len(slot'[r].result.profiles),
                           slot[r].entry.agentDir)
     /\ \A r \in Slots :
          (/\ slot[r].kind = "callback"
           /\ slot'[r] = IdleSlot
           /\ lastDone'.path \in {"upsert_failed", "config_failed", "write_failed"}) =>
            /\ ProfilesStored(authProfiles', lastDone'.result, lastDone'.upserted,
                              slot[r].entry.agentDir)
            /\ lastDone'.path \in {"config_failed", "write_failed"}
                 => lastDone'.upserted = Len(lastDone'.result.profiles)
            /\ \E err \in {ErrUpsert, ErrConfig, ErrWrite} :
                 AnsweredWith(ErrorLocation(err, slot[r].entry.successRedirectBase))
    ]_vars

\* the configuration write failed after two profiles were written: both are
\* in the store and the browser got the error
C28_Witness ==
  /\ lastDone.kind = "callback"
  /\ lastDone.path = "write_failed"
  /\ lastDone.upserted = 2
  /\ ProfilesStored(authProfiles, lastDone.result, 2, AgentDir)
  /\ HasErrorMarker(lastDone.res.location)

\* C29: an invalid snapshot.  When readConfigFileSnapshot returns a snapshot
\* that is not valid, the handler returns from there: the configuration file
\* is as it was, nothing is handed to writeConfigFile, the profiles are in
\* the store, and the browser is redirected with oauth=success.
C29_InvalidSnapshot ==
  [][\A r \in Slots :
       (/\ slot[r].kind = "callback" /\ slot[r].pc = "readSnapshot"
        /\ ~ValidDoc(configFile)
        /\ lastDone'.path # "config_failed"
        /\ SnapshotReturn(r))
         => /\ lastDone'.path = "snapshot_invalid"
            /\ lastDone'.wrote = NoValue
            /\ configFile' = configFile
            /\ slot'[r] = IdleSlot
            /\ AnsweredWith(IF Truthy(slot[r].entry.successRedirectBase)
                            THEN StripTrailingSlashes(slot[r].entry.successRedirectBase)
                                   \o <<"?oauth=success">>
                            ELSE <<"/", "?oauth=success">>)
            /\ ProfilesStored(authProfiles', lastDone'.result,
                              Len(lastDone'.result.profiles), slot[r].entry.agentDir)
    ]_vars

\* the file was not valid: the callback ended with the success redirect, the
\* profiles written and the file untouched
C29_Witness ==
  /\ lastDone.kind = "callback"
  /\ lastDone.path = "snapshot_invalid"
  /\ configFile = BogusDoc
  /\ EndsWithSuccessMarker(lastDone.res.location)
  /\ lastDone.upserted = Len(lastDone.result.profiles)
  /\ ProfilesStored(authProfiles, lastDone.result, lastDone.upserted, AgentDir)

\* the patch merged into the snapshot, then one reference per profile in
\* the order of the result, then the migration, whose document is taken
\* when it made one
PatchedThenMigrated(snapshot, result) ==
  LET merged == IF result.configPatch # NoValue
                THEN mergeConfigPatch(snapshot, result.configPatch)
                ELSE snapshot
      withModes == applyProfiles(merged, result.profiles, 1)
      migration == applyLegacyMigrations(withModes)
  IN  IF migration.next # NoValue THEN migration.next ELSE withModes

\* C30: the configuration side of the callback.  What the handler hands to
\* writeConfigFile is the fresh snapshot with the patch merged in, then the
\* profile references applied, then migrated, and it has passed validation;
\* the file changes only when that write returns, to exactly that document.
\* When the document fails validation nothing is written and the browser is
\* still redirected with oauth=success.
C30_WriteAfterValidation ==
  [][/\ \A r \in Slots :
          (slot[r].pc = "readSnapshot" /\ slot'[r].pc = "writeConfig") =>
            /\ ValidDoc(configFile)
            /\ slot'[r].toWrite = PatchedThenMigrated(configFile, slot[r].result)
            /\ ValidDoc(slot'[r].toWrite)
            /\ configFile' = configFile
     /\ configFile' # configFile =>
          \E r \in Slots :
            /\ slot[r].kind = "callback" /\ slot[r].pc = "writeConfig"
            /\ configFile' = slot[r].toWrite
            /\ lastDone'.wrote = slot[r].toWrite
     /\ \A r \in Slots :
          (/\ slot[r].kind = "callback" /\ slot[r].pc = "readSnapshot"
           /\ ValidDoc(configFile)
           /\ ~ValidDoc(PatchedThenMigrated(configFile, slot[r].result))
           /\ lastDone'.path # "config_failed"
           /\ SnapshotReturn(r))
            => /\ configFile' = configFile
               /\ slot'[r] = IdleSlot
               /\ lastDone'.wrote = NoValue
               /\ EndsWithSuccessMarker(lastDone'.res.location)
    ]_vars

\* a patch with a legacy key was merged, the profile references added, the
\* migration applied last, and that document is on file
C30_Witness ==
  /\ lastDone.kind = "callback"
  /\ lastDone.path = "written"
  /\ configFile = lastDone.wrote
  /\ "migrated" \in DOMAIN configFile.f
  /\ "legacy" \notin DOMAIN configFile.f
  /\ "auth" \in DOMAIN configFile.f
  /\ "models" \in DOMAIN configFile.f

(***************************************************************************)
(* The callback against a changed plugin list, checked under SpecLive.     *)
(***************************************************************************)
\* the oauth methods of the provider that have the methodId as their id, or
\* as their label but for case
RecordedMethods(provider, methodId) ==
  { i \in 1..Len(provider.auth) :
      /\ provider.auth[i].kind = "oauth"
      /\ \/ provider.auth[i].id = methodId
         \/ ToLowerCase(provider.auth[i].label) = ToLowerCase(methodId) }

\* the live list has no provider for the entry, or the provider no oauth
\* method for it, or the method no callback capability
NoLongerResolves(entry) ==
  \/ IdMatches(providers, entry.providerId) \cup AliasMatches(providers, entry.providerId) = {}
  \/ LET provider == resolveProviderMatchCb(providers, entry.providerId)
         found == RecordedMethods(provider, entry.methodId)
     IN  \/ found = {}
         \/ \E i \in found : (\A j \in found : i <= j) /\ ~provider.auth[i].oauthCallback

\* C26: resolution at callback time.  A callback with a valid state whose
\* providerId matches no provider of the list as it is now, or whose
\* methodId matches no oauth method of that provider, or whose method has no
\* oauthCallback, is redirected with oauth=error and 'Provider or OAuth
\* method not found' to the successRedirectBase of the state (the root path
\* when it has none); no exchange is started, no profile and no
\* configuration is written.
C26_LiveResolution ==
  [][\A req \in LiveCallbackRequests :
       (/\ ~NoLiveEntry(Trim(req.state))
        /\ NoLongerResolves(stateMap[Trim(req.state)])
        /\ CallbackBegin(req))
         => /\ AnsweredWith(ErrorLocation(MsgNotFound,
                                          stateMap[Trim(req.state)].successRedirectBase))
            /\ lastDone'.got
            /\ UNCHANGED <<exchangeCalls, slot, authProfiles, configFile>>
    ]_vars

\* a flow was started for provider a with a successRedirectBase; the
\* provider is gone from the list when the callback comes: the browser is
\* sent to that base with the error
C26_Witness ==
  /\ lastDone.kind = "callback"
  /\ lastDone.path = "not_found"
  /\ lastDone.got
  /\ \A i \in 1..Len(providers) : providers[i].id # <<"a">>
  /\ lastDone.res.location = <<"u", "?oauth=error&message=">> \o encodeURIComponent(MsgNotFound)
  /\ exchangeCalls[lastDone.state] = 0
  /\ authProfiles = << >>

(***************************************************************************)
(* Properties of models.auth.list, checked under SpecList.                 *)
(***************************************************************************)
\* the configuration has a block for the provider with an apiKey that is a
\* string and not blank
HasKeyOnFile(config, id) ==
  LET block == ConfiguredBlock(config, id)
  IN  /\ block # NoValue
      /\ block.k = "rec"
      /\ "apiKey" \in DOMAIN block.f
      /\ block.f["apiKey"].k = "str"
      /\ Trim(block.f["apiKey"].f) # << >>

\* C21: listing without a credential store.  When the credential store
\* cannot be opened, models.auth.list still responds once, with ok and one
\* entry per provider of the list, in order; an entry is connected exactly
\* when the configuration holds a non-blank apiKey for its provider, whatever
\* profiles the store holds.
C21_ListWithoutStore ==
  (lastDone.kind = "list" /\ lastDone.path = "listed_without_store") =>
    /\ Len(lastDone.responses) = 1
    /\ lastDone.responses[1].ok
    /\ lastDone.responses[1].error = NoError
    /\ LET listed == lastDone.responses[1].result.providers
       IN  /\ Len(listed) = Len(providers)
           /\ \A i \in 1..Len(providers) :
                /\ listed[i].id = providers[i].id
                /\ listed[i].connected <=> HasKeyOnFile(configFile, providers[i].id)

\* the store holds a profile of provider a and could not be opened: a is
\* listed as not connected, b, whose block has a key, as connected
C21_Witness ==
  /\ lastDone.kind = "list"
  /\ lastDone.path = "listed_without_store"
  /\ \E id \in DOMAIN authProfiles : authProfiles[id].credential.provider = <<"a">>
  /\ Len(lastDone.responses[1].result.providers) = 3
  /\ ~lastDone.responses[1].result.providers[1].connected
  /\ lastDone.responses[1].result.providers[2].connected

(***************************************************************************)
(* Properties of the chat controller, checked under SpecChat.              *)
(***************************************************************************)
\* the step is a handleChatEvent call with a payload of the current session
HandledEventOfSession ==
  /\ chatRet'.fn = "handleChatEvent"
  /\ chatRet'.n = chatRet.n + 1
  /\ chatRet'.payload # NoValue
  /\ chatRet'.payload.sessionKey = chat.sessionKey

RunIsActive == chat.chatRunId # JsonNull

RunCleared(state) ==
  /\ state.chatStream = JsonNull
  /\ state.chatRunId = JsonNull
  /\ state.chatStreamStartedAt = JsonNull

\* C39: terminal events clear the run.  Whatever sendChatMessage and
\* handleChatEvent calls came before, a final, aborted or error event of the
\* current session whose runId is that of the active run leaves chatStream,
\* chatRunId and chatStreamStartedAt null, and an error event leaves its
\* message in lastError (the text "chat error" when it carries none); and in
\* every state chatRunId is non-null only if chatStream is non-null.
C39_TerminalEventsClear ==
  /\ (chat.chatRunId # JsonNull => chat.chatStream # JsonNull)
  /\ [][/\ chat'.chatRunId # JsonNull => chat'.chatStream # JsonNull
        /\ ( /\ HandledEventOfSession
             /\ RunIsActive
             /\ Str(chatRet'.payload.runId) = chat.chatRunId
             /\ chatRet'.payload.state \in {"final", "aborted", "error"} )
           => /\ RunCleared(chat')
              /\ chatRet'.payload.state = "error" =>
                   chat'.lastError =
                     IF chatRet'.payload.errorMessage # Undefined
                     THEN Str(chatRet'.payload.errorMessage)
                     ELSE Str(<<"chat", " ", "error">>)]_vars

\* the run r was started and streamed nothing; its error event has been
\* handled: the run is cleared and lastError holds the event's message
C39_Witness ==
  /\ chatRet.fn = "handleChatEvent"
  /\ chatRet.payload # NoValue
  /\ chatRet.payload.state = "error"
  /\ chatRet.payload.runId = <<"r">>
  /\ Len(sends) = 1
  /\ chat.activityLog.k = "arr"
  /\ Len(chat.activityLog.f) = 3
  /\ chat.activityLog.f[1].event = "run.start"
  /\ chat.activityLog.f[3].level = "error"
  /\ RunCleared(chat)
  /\ chat.lastError = Str(<<"boom">>)

\* what handleChatEvent returns for an event of another run
SkippedValue(payload) == IF payload.state = "final" THEN Str(<<"final">>) ELSE JsonNull

\* C40 as stated: an event of another session, and an event whose runId
\* differs from the active run's, change no field of the chat state.
C40_AsStated ==
  [][/\ ( /\ chatRet'.fn = "handleChatEvent"
          /\ chatRet'.n = chatRet.n + 1
          /\ chatRet'.payload # NoValue
          /\ chatRet'.payload.sessionKey # chat.sessionKey )
        => (chat' = chat /\ chatRet'.value = JsonNull)
     /\ ( /\ HandledEventOfSession
          /\ RunIsActive
          /\ Str(chatRet'.payload.runId) # chat.chatRunId )
        => (chat' = chat /\ chatRet'.value = SkippedValue(chatRet'.payload))]_vars

\* C40: events that do not belong to the current run change nothing.
\* handleChatEvent leaves every field of the chat state unchanged and
\* returns null when the payload's sessionKey differs from the state's; when
\* a run is active and the payload carries a non-empty runId that differs
\* from it, it leaves every field unchanged and returns "final" for a final
\* event and null otherwise.
C40_OtherRunIgnored ==
  [][/\ ( /\ chatRet'.fn = "handleChatEvent"
          /\ chatRet'.n = chatRet.n + 1
          /\ chatRet'.payload # NoValue
          /\ chatRet'.payload.sessionKey # chat.sessionKey )
        => (chat' = chat /\ chatRet'.value = JsonNull)
     /\ ( /\ HandledEventOfSession
          /\ RunIsActive
          /\ chatRet'.payload.runId # << >>
          /\ Str(chatRet'.payload.runId) # chat.chatRunId )
        => (chat' = chat /\ chatRet'.value = SkippedValue(chatRet'.payload))]_vars

\* a final event of run z has been handled while run r is active: r is
\* still active and the call returned "final"
C40_Witness ==
  /\ chatRet.fn = "handleChatEvent"
  /\ chatRet.payload # NoValue
  /\ chatRet.payload.runId = <<"z">>
  /\ chatRet.payload.state = "final"
  /\ chatRet.value = Str(<<"final">>)
  /\ chat.chatRunId = Str(<<"r">>)
  /\ chat.chatStream # JsonNull

(***************************************************************************)
(* Overlapping configuration writes, checked under SpecWriters.            *)
(***************************************************************************)
\* the invocation in slot r returns in this step, its write having succeeded
WroteWithSuccess(r) ==
  /\ slot[r].pc = "writeConfig"
  /\ slot'[r].kind = "idle"
  /\ lastDone'.path = "written"

ReportsSuccess(done) ==
  IF done.kind = "callback"
  THEN done.res.statusCode = 302 /\ EndsWithSuccessMarker(done.res.location)
  ELSE Len(done.responses) = 1 /\ done.responses[1].ok

\* C31: configuration writes are last-write-wins, without conflict
\* detection.  Whenever a callback or a set-api-key request completes its
\* write, the persisted configuration is exactly the document that request
\* had prepared from its own snapshot, whatever another request has written
\* since that snapshot was read, and the request reports success; the other
\* request's update is then absent unless the snapshot held it.
C31_LastWriteWins ==
  [][\A r \in Slots :
       WroteWithSuccess(r) =>
         /\ configFile' = slot[r].toWrite
         /\ ReportsSuccess(lastDone')]_vars

\* a set-api-key for provider b and a callback both wrote and reported
\* success, the callback last, from a snapshot read before b's key was
\* written: the file is the callback's document and b's key is not in it
C31_Witness ==
  /\ writes.apiKey # NoValue
  /\ HasKeyOnFile(writes.apiKey, <<"b">>)
  /\ writes.callback # NoValue
  /\ lastDone.kind = "callback"
  /\ lastDone.path = "written"
  /\ ReportsSuccess(lastDone)
  /\ configFile = writes.callback
  /\ ~HasKeyOnFile(configFile, <<"b">>)

(***************************************************************************)
(* The block a set-api-key attaches the secret to, checked under           *)
(* SpecApiKey.                                                             *)
(***************************************************************************)
\* the block is an object with a base URL and a model list
SuppliesConnection(block) ==
  /\ block.k = "rec"
  /\ "baseUrl" \in DOMAIN block.f
  /\ block.f["baseUrl"].k = "str"
  /\ "models" \in DOMAIN block.f
  /\ block.f["models"].k = "arr"

\* the existing block of the provider when one is configured, else the
\* plugin's default connection template
BlockToAttachTo(config, provider) ==
  LET existing == ConfiguredBlock(config, provider.id)
  IN  IF existing # NoValue /\ existing # JsonNull THEN existing ELSE provider.models

\* the request goes on to write the loaded configuration with the secret
\* attached to this block
AttachesTo(params, block) ==
  LET provider == resolveProviderMatch(providers, params.providerId)
      method == pickApiKeyOrTokenMethod(provider, params.methodId)
  IN  \E r \in Slots :
        /\ slot[r].kind = "idle"
        /\ slot'[r].kind = "apiKey"
        /\ IsKeyUpdate(configFile, slot'[r].toWrite, provider.id, block,
                       Trim(params.apiKey),
                       IF method.kind = "token" THEN <<"token">> ELSE <<"api-key">>)

\* C32 as stated: the secret goes to the existing block, else to the
\* template, and the request is refused with UNAVAILABLE only if neither the
\* existing block nor the template supplies a base URL and a model list.
C32_AsStated ==
  [][\A params \in ApiKeyParams :
       (KeyRequestResolves(params) /\ ApiKeySetBegin(params)) =>
         LET provider == resolveProviderMatch(providers, params.providerId)
         IN  /\ slot' # slot => AttachesTo(params, BlockToAttachTo(configFile, provider))
             /\ KeyRefusedWith("UNAVAILABLE") =>
                  /\ ~SuppliesConnection(ConfiguredBlock(configFile, provider.id))
                  /\ ~SuppliesConnection(provider.models)
    ]_vars

\* C32: the block the secret is attached to.  set-api-key attaches the
\* secret to the provider's existing configuration block when one is
\* configured and otherwise to the plugin's default connection template; it
\* fails with the 'no default config' UNAVAILABLE error only if that block -
\* the existing one when configured, otherwise the template - does not
\* supply a base URL and a model list, and it always fails then.
C32_AttachedBlock ==
  [][\A params \in ApiKeyParams :
       (KeyRequestResolves(params) /\ ApiKeySetBegin(params)) =>
         LET provider == resolveProviderMatch(providers, params.providerId)
             block == BlockToAttachTo(configFile, provider)
         IN  /\ slot' # slot => AttachesTo(params, block)
             /\ KeyRefusedWith("UNAVAILABLE") <=> ~SuppliesConnection(block)
             /\ KeyRefusedWith("UNAVAILABLE") => lastDone'.path = "no_default"
    ]_vars

\* a key for provider a was refused for want of a default config: the
\* configuration has a block for a without base URL, while the plugin's
\* template for a has a base URL and a model list
C32_Witness ==
  /\ lastDone.kind = "apiKey"
  /\ lastDone.path = "no_default"
  /\ lastDone.responses[1].error.code = "UNAVAILABLE"
  /\ lastDone.responses[1].error.message[3] = "a"
  /\ ConfiguredBlock(configFile, <<"a">>) # NoValue
  /\ ~SuppliesConnection(ConfiguredBlock(configFile, <<"a">>))
  /\ SuppliesConnection(ProviderA.models)

(***************************************************************************)
(* What a refused models.auth.oauthStart leaves in the state store,        *)
(* checked under Spec.                                                     *)
(***************************************************************************)
\* the last handler to return was models.auth.oauthStart, with an error
StartRespondedWithError ==
  /\ lastDone.kind = "start"
  /\ Len(lastDone.responses) = 1
  /\ ~lastDone.responses[1].ok

\* C34: whenever models.auth.oauthStart responds with an error of any code,
\* the UNAVAILABLE of a start capability that threw included, the state
\* store holds no record created by that request.
C34_AsStated ==
  StartRespondedWithError => lastDone.state \notin DOMAIN stateMap

\* the start capability threw, the caller was answered UNAVAILABLE, and the
\* record made for the request at lines 210-216 is still in the store
C34_Witness ==
  /\ StartRespondedWithError
  /\ lastDone.path = "start_failed"
  /\ lastDone.responses[1].error.code = "UNAVAILABLE"
  /\ lastDone.state = Token(1)
  /\ Token(1) \in DOMAIN stateMap
  /\ stateMap[Token(1)].providerId = <<"a">>

(***************************************************************************)
(* What the success redirect of the callback stands for, and what becomes  *)
(* of the token, checked under Spec.                                       *)
(***************************************************************************)
\* the callback that returned last sent the redirect with oauth=success
AnsweredSuccess(done) ==
  /\ done.kind = "callback"
  /\ done.res.statusCode = 302
  /\ EndsWithSuccessMarker(done.res.location)

\* the branches on which the state was not valid, the exchange threw, or a
\* profile write threw
FailedBeforeSnapshot == {"invalid_state", "not_found", "exchange_failed", "upsert_failed"}

\* C35: a redirect with oauth=success is sent only if, in the same callback
\* request, a state entry was consumed, the code exchange returned without
\* error and every credential profile of its result was written to the
\* profile store; a request that failed at one of these steps is never
\* answered with oauth=success.
C35_SuccessOnlyAfterAll ==
  /\ AnsweredSuccess(lastDone) =>
       /\ lastDone.had /\ lastDone.got
       /\ lastDone.state \notin DOMAIN stateMap
       /\ obtained[lastDone.state] = 1
       /\ exchangeCalls[lastDone.state] = 1
       /\ lastDone.result \in ExchangeResults
       /\ lastDone.upserted = Len(lastDone.result.profiles)
  /\ (lastDone.kind = "callback" /\ lastDone.path \in FailedBeforeSnapshot) =>
       ~AnsweredSuccess(lastDone)
  /\ [][\A r \in Slots :
          (/\ slot[r].kind = "callback"
           /\ slot'[r] = IdleSlot
           /\ AnsweredSuccess(lastDone')) =>
            /\ slot[r].entry # Null
            /\ slot[r].pc \in {"readSnapshot", "writeConfig"}
            /\ slot[r].result \in ExchangeResults
            /\ slot[r].upserted = Len(slot[r].result.profiles)
            /\ ProfilesStored(authProfiles', slot[r].result, Len(slot[r].result.profiles),
                              slot[r].entry.agentDir)
            /\ lastDone'.result = slot[r].result
            /\ lastDone'.state = slot[r].state
     ]_vars

\* the snapshot was not valid: nothing was written to the configuration, and
\* the browser got oauth=success after both profiles of the exchange were
\* stored
C35_Witness ==
  /\ AnsweredSuccess(lastDone)
  /\ lastDone.path = "snapshot_invalid"
  /\ lastDone.got
  /\ lastDone.upserted = 2
  /\ ProfilesStored(authProfiles, lastDone.result, 2, AgentDir)
  /\ lastDone.state \notin DOMAIN stateMap

\* the request carries a state and a code and no error parameter
ReachesConsumption(req) ==
  /\ IsCallbackLine(req.method, req.pathname)
  /\ ~Truthy(OptTrim(req.error))
  /\ Truthy(OptTrim(req.state))
  /\ Truthy(OptTrim(req.code))

\* C36: the token is burned by any callback that reaches consumption.  Once
\* the handler has taken up a callback with a state and a code and no error
\* parameter, the token is absent from the store - while the exchange and
\* the writes are awaited and whatever the outcome: provider or method not
\* found, exchange failure, persistence failure, success.  No later callback
\* gets an entry for that token, so a failed exchange is never retried with
\* it.
C36_TokenBurned ==
  /\ \A r \in Slots : InFlightCallback(r) => slot[r].state \notin DOMAIN stateMap
  /\ (lastDone.kind = "callback" /\ lastDone.handled
        /\ lastDone.path \notin {"provider_error", "missing"}) =>
       lastDone.state \notin DOMAIN stateMap
  /\ [][\A req \in CallbackRequests :
          (ReachesConsumption(req) /\ CallbackBegin(req)) =>
            /\ OptTrim(req.state) \notin DOMAIN stateMap'
            /\ (OptTrim(req.state) \in Tokens /\ exchangeCalls[OptTrim(req.state)] >= 1) =>
                 /\ lastDone'.path = "invalid_state"
                 /\ exchangeCalls' = exchangeCalls
     ]_vars

\* the exchange for token 1 failed, and a second callback with token 1 was
\* answered 'Invalid or expired state' without a second exchange
C36_Witness ==
  /\ exchangeCalls[Token(1)] = 1
  /\ obtained[Token(1)] = 1
  /\ authProfiles = << >>
  /\ lastDone.kind = "callback"
  /\ lastDone.state = Token(1)
  /\ lastDone.path = "invalid_state"
  /\ ~lastDone.had
  /\ Token(1) \notin DOMAIN stateMap

(***************************************************************************)
(* What the callback hands to the code exchange, compared with what        *)
(* models.auth.oauthStart handed to the start capability for the same      *)
(* token, checked under SpecFlow.                                          *)
(***************************************************************************)
\* the callback in slot r invokes method.oauthCallback in this step
InvokesExchange(r) ==
  /\ slot[r].kind = "idle"
  /\ slot'[r].kind = "callback"
  /\ slot'[r].pc = "oauthCallback"

\* C33: the method whose code-exchange capability the callback invokes is
\* the method descriptor whose start capability was invoked when the token
\* was issued, for every provider method list that is the same at start and
\* at callback - lists where the label of one oauth method equals the id of
\* another up to case included.
C33_AsStated ==
  [][\A r \in Slots :
       InvokesExchange(r) => slot'[r].method = started[slot'[r].state].method]_vars

\* the flow was started with method y, and the exchange is awaited from
\* method b, whose label is Y
C33_Witness ==
  \E r \in Slots :
    /\ slot[r].kind = "callback"
    /\ slot[r].pc = "oauthCallback"
    /\ providers[1] = ProviderTwins
    /\ started[slot[r].state].method = MethodIdY
    /\ slot[r].entry.methodId = <<"y">>
    /\ slot[r].method = MethodLabelY

\* C37: the callback address passed to the code exchange at callback time
\* equals the callback address that was passed to the start capability for
\* the same token.
C37_AsStated ==
  [][\A r \in Slots :
       InvokesExchange(r) =>
         slot'[r].redirectUri = started[slot'[r].state].redirectUri]_vars

\* the flow was started with https://h/auth/callback (the gateway behind a
\* proxy that terminates TLS), and the exchange is awaited with
\* http://h/auth/callback, rebuilt from the Host header and the plain socket
C37_Witness ==
  \E r \in Slots :
    /\ slot[r].kind = "callback"
    /\ slot[r].pc = "oauthCallback"
    /\ started[slot[r].state].redirectUri = <<"https", "://", "h", "/auth/callback">>
    /\ slot[r].redirectUri = <<"http", "://", "h", "/auth/callback">>

(***************************************************************************)
(* The respond calls of the RPC handlers, checked under SpecRpc.           *)
(***************************************************************************)
RpcKinds == {"list", "start", "apiKey"}

\* respond(true, result, undefined) or respond(false, undefined, error) with
\* one of the two codes
WellFormedResponse(response) ==
  IF response.ok
  THEN response.result # NoResult /\ response.error = NoError
  ELSE /\ response.result = NoResult
       /\ response.error.code \in {"INVALID_REQUEST", "UNAVAILABLE"}
       /\ IsDefined(response.error.message)

\* C38: each invocation of models.auth.list, models.auth.oauthStart and
\* models.auth.apiKeySet calls respond exactly once - with success, a result
\* and no error, or with failure, no result and an error whose code is
\* INVALID_REQUEST or UNAVAILABLE - on every path, those on which the start
\* capability, the credential store or the configuration write throws
\* included.  An invocation that waits has not responded; it responds when
\* it returns.
C38_RespondsOnce ==
  /\ lastDone.kind \in RpcKinds =>
       /\ Len(lastDone.responses) = 1
       /\ WellFormedResponse(lastDone.responses[1])
  /\ [][/\ (\E r \in Slots : slot[r].kind = "idle" /\ slot'[r].kind # "idle") =>
             lastDone' = lastDone
        /\ (\A r \in Slots : slot[r].kind = "idle" => slot'[r].kind = "idle") =>
             /\ lastDone'.kind \in RpcKinds
             /\ Len(lastDone'.responses) = 1
             /\ WellFormedResponse(lastDone'.responses[1])
     ]_vars

\* the start capability threw: one respond call, UNAVAILABLE, no result
C38_Witness ==
  /\ lastDone.kind = "start"
  /\ lastDone.path = "start_failed"
  /\ lastDone.responses = <<ErrorResponse("UNAVAILABLE", ErrStart)>>
  /\ \E r \in Slots : slot[r].kind = "apiKey"

====
